---- MODULE Spec2Model ----
(***************************************************************************)
(* Verification model of the front-end pipelines of the RAG chat           *)
(* application: the shared query primitive and its retrying variants, the  *)
(* progressive policy-field extractor with its process-wide cache and     *)
(* in-flight guard, the NDJSON streaming answer assembler of the Chat     *)
(* page, and the graph relationship parser.                                *)
(*                                                                         *)
(* Text is modelled as a sequence of one-character strings, so that       *)
(* trim(), split() and the regular expressions of the source are computed *)
(* character by character.                                                 *)
(***************************************************************************)
EXTENDS Integers, Sequences, FiniteSets, TLC

\* ------------------------------------------------------------------------
\* Text helpers (String.prototype.trim / split / join)
\* ------------------------------------------------------------------------

\* The sentinel "NF".
NF == <<"N", "F">>

IsSpace(c) == c = " "

RECURSIVE TrimStart(_)
TrimStart(s) ==
    IF s # <<>> /\ IsSpace(Head(s)) THEN TrimStart(Tail(s)) ELSE s

RECURSIVE TrimEnd(_)
TrimEnd(s) ==
    IF s # <<>> /\ IsSpace(s[Len(s)]) THEN TrimEnd(SubSeq(s, 1, Len(s) - 1)) ELSE s

\* String.prototype.trim
Trim(s) == TrimEnd(TrimStart(s))

\* Index of the first occurrence of the character c in s at or after position
\* from, or 0 when there is none.
RECURSIVE IndexOfFrom(_, _, _)
IndexOfFrom(s, c, from) ==
    IF from > Len(s) THEN 0
    ELSE IF s[from] = c THEN from
    ELSE IndexOfFrom(s, c, from + 1)

\* String.prototype.split on a one-character separator: the sequence of the
\* pieces between separators (always at least one piece).
RECURSIVE Split(_, _)
Split(s, sep) ==
    LET p == IndexOfFrom(s, sep, 1) IN
    IF p = 0 THEN <<s>>
    ELSE <<SubSeq(s, 1, p - 1)>> \o Split(SubSeq(s, p + 1, Len(s)), sep)

\* Array.prototype.map(x => x.trim())
RECURSIVE MapTrim(_)
MapTrim(parts) ==
    IF parts = <<>> THEN <<>> ELSE <<Trim(Head(parts))>> \o MapTrim(Tail(parts))

\* Array.prototype.filter(x => x && x !== 'NF')
RECURSIVE FilterPresent(_)
FilterPresent(parts) ==
    IF parts = <<>> THEN <<>>
    ELSE IF Head(parts) # <<>> /\ Head(parts) # NF
         THEN <<Head(parts)>> \o FilterPresent(Tail(parts))
         ELSE FilterPresent(Tail(parts))

\* Array.prototype.join(sep), used to build comma-separated replies.
RECURSIVE Join(_, _)
Join(parts, sep) ==
    IF parts = <<>> THEN <<>>
    ELSE IF Len(parts) = 1 THEN Head(parts)
    ELSE Head(parts) \o <<sep>> \o Join(Tail(parts), sep)

\* All sequences over S of length 0..n.
SeqsUpTo(S, n) == UNION {[1..k -> S] : k \in 0..n}

\* ------------------------------------------------------------------------
\* The network call of the query primitive and its outcomes
\* ------------------------------------------------------------------------

\* What one fetch('/api/ask') can produce: a 2xx response whose JSON body has
\* message.content (hasContent) or lacks it, a non-2xx status, a rejected
\* fetch, or a body that is not JSON.
OkReply(t) == [kind |-> "ok", hasContent |-> TRUE, text |-> t]
OkNoContent == [kind |-> "ok", hasContent |-> FALSE, text |-> <<>>]
StatusError == [kind |-> "status", hasContent |-> FALSE, text |-> <<>>]
FetchFailure == [kind |-> "fetch", hasContent |-> FALSE, text |-> <<>>]
JsonFailure == [kind |-> "json", hasContent |-> FALSE, text |-> <<>>]

\* The call failed: the try block of the primitive leaves by an exception.
CallFailed(o) == o.kind # "ok"

\* Completion of a call: it returned value, or it threw.
Returned(v) == [threw |-> FALSE, value |-> v]
Thrown == [threw |-> TRUE, value |-> <<>>]

\* Reply texts of the backend used to exercise the primitive.
ReplyTexts ==
    { <<>>,
      <<" ">>,
      <<"a">>,
      <<" ", "a", " ">>,
      <<"a", " ", "b">>,
      NF,
      <<" ", "N", "F">> }

Outcomes ==
    {OkReply(t) : t \in ReplyTexts}
        \cup {OkNoContent, StatusError, FetchFailure, JsonFailure}

\* ------------------------------------------------------------------------
\* Shared query primitive
\* ------------------------------------------------------------------------

\* The try block of queryRAG: throws on a rejected fetch, a non-2xx status or
\* a JSON failure; otherwise data.message?.content?.trim() ?? '' and then
\* result || 'NF'.
queryRAGTry(o) ==
    IF o.kind = "fetch" THEN Thrown
    ELSE IF o.kind = "status" THEN Thrown
    ELSE IF o.kind = "json" THEN Thrown
    ELSE LET result == IF o.hasContent THEN Trim(o.text) ELSE <<>> IN
         Returned(IF result # <<>> THEN result ELSE NF)

\* A queryRAG whose catch block is missing.
queryRAGUncaught(o) == queryRAGTry(o)

\* queryRAG: the try block, and a catch that logs and returns 'NF'.
queryRAG(o) ==
    LET r == queryRAGTry(o) IN
    IF r.threw THEN Returned(NF) ELSE r

\* The try block of PolicyExtractionService.queryChatAPI: as queryRAG's, but
\* data.message.content.trim() throws a TypeError when message or content is
\* missing.
queryChatAPITry(o) ==
    IF o.kind = "fetch" THEN Thrown
    ELSE IF o.kind = "status" THEN Thrown
    ELSE IF o.kind = "json" THEN Thrown
    ELSE IF ~o.hasContent THEN Thrown
    ELSE LET result == Trim(o.text) IN
         Returned(IF result # <<>> THEN result ELSE NF)

\* queryChatAPI: the try block, and a catch that logs and returns 'NF'.
queryChatAPI(o) ==
    LET r == queryChatAPITry(o) IN
    IF r.threw THEN Returned(NF) ELSE r

\* ------------------------------------------------------------------------
\* Retrying variants
\* ------------------------------------------------------------------------

\* Default of the maxRetries parameter of queryRAGWithRetry.
maxRetries == 2

\* Default of the maxRetries parameter of queryWithRetry.
queryWithRetryMaxRetries == 2

\* Length of the oracle that fixes what the successive fetches of one retrying
\* call produce (longer than the number of attempts the code makes).
OracleLen == 4

\* Outcomes the fetches of a retrying call are drawn from.
RetryOutcomes ==
    {OkReply(<<" ", "a", " ">>), OkReply(<<"b">>), OkReply(NF), OkReply(<<>>),
     OkNoContent, StatusError}

Oracles == [1..OracleLen -> RetryOutcomes]

\* What the k-th fetch of a call produces under the oracle outs.
NthOutcome(outs, k) == outs[((k - 1) % Len(outs)) + 1]

\* Completion of a retrying call, with the number of queries it issued.
RetryReturned(v, n) == [threw |-> FALSE, value |-> v, calls |-> n]
RetryThrown(n) == [threw |-> TRUE, value |-> <<>>, calls |-> n]

\* A loop condition that allows one attempt too many.
queryRAGWithRetryContinueOffByOne(attempts) == attempts <= maxRetries + 1

\* Loop condition of queryRAGWithRetry: while (attempts <= maxRetries).
queryRAGWithRetryContinue(attempts) == attempts <= maxRetries

\* The loop of queryRAGWithRetry from the state (attempts, calls issued so
\* far): a result that is not 'NF' is returned at once; 'NF' and a thrown
\* error both count an attempt and go round again; 'NF' when the loop ends.
RECURSIVE queryRAGWithRetryLoop(_, _, _)
queryRAGWithRetryLoop(outs, attempts, calls) ==
    IF queryRAGWithRetryContinue(attempts)
    THEN LET r == queryRAG(NthOutcome(outs, calls + 1)) IN
         IF ~r.threw /\ r.value # <<>> /\ r.value # NF
         THEN RetryReturned(r.value, calls + 1)
         ELSE queryRAGWithRetryLoop(outs, attempts + 1, calls + 1)
    ELSE RetryReturned(NF, calls)

queryRAGWithRetry(outs) == queryRAGWithRetryLoop(outs, 0, 0)

\* Loop condition of queryWithRetry:
\* while (attempts <= maxRetries && (result === 'NF' || !result)).
queryWithRetryContinue(attempts, result) ==
    attempts <= queryWithRetryMaxRetries /\ (result = NF \/ result = <<>>)

\* The loop of queryWithRetry (it has no try/catch of its own; the queryRAG
\* of its file is the same function as queryRAG above).
RECURSIVE queryWithRetryLoop(_, _, _, _)
queryWithRetryLoop(outs, result, attempts, calls) ==
    IF queryWithRetryContinue(attempts, result)
    THEN LET r == queryRAG(NthOutcome(outs, calls + 1)) IN
         IF r.threw THEN RetryThrown(calls + 1)
         ELSE IF r.value # <<>> /\ r.value # NF
         THEN RetryReturned(r.value, calls + 1)
         ELSE queryWithRetryLoop(outs, r.value, attempts + 1, calls + 1)
    ELSE RetryReturned(result, calls)

queryWithRetry(outs) == queryWithRetryLoop(outs, NF, 0, 0)

\* ------------------------------------------------------------------------
\* Graph relationship parser (two revisions of parseGraph)
\* ------------------------------------------------------------------------

\* Index of the first '-' or '>' of s at or after position from; 0 if none.
RECURSIVE IndexOfDashOrGt(_, _)
IndexOfDashOrGt(s, from) ==
    IF from > Len(s) THEN 0
    ELSE IF s[from] = "-" \/ s[from] = ">" THEN from
    ELSE IndexOfDashOrGt(s, from + 1)

NoMatch == [matched |-> FALSE, source |-> <<>>, label |-> <<>>, target |-> <<>>]

\* match.map(s => s.trim()) of a successful match with the three captures.
Matched(seg1, seg2, seg3) ==
    [matched |-> TRUE, source |-> Trim(seg1), label |-> Trim(seg2), target |-> Trim(seg3)]

\* relation.match(/^\s*([^>]+?)\s*->\s*([^>]+?)\s*->\s*([^>]+?)\s*$/): no
\* capture holds a '>', so the string has exactly two '>', each preceded by a
\* '-', and the three stretches around the two arrows are not empty (a
\* stretch of white space alone is captured as one white-space character).
RelationMatch(s) ==
    LET g1 == IndexOfFrom(s, ">", 1) IN
    IF g1 < 3 \/ s[g1 - 1] # "-" THEN NoMatch
    ELSE LET g2 == IndexOfFrom(s, ">", g1 + 1) IN
         IF g2 < g1 + 3 \/ s[g2 - 1] # "-" THEN NoMatch
         ELSE IF IndexOfFrom(s, ">", g2 + 1) # 0 \/ g2 = Len(s) THEN NoMatch
         ELSE Matched(SubSeq(s, 1, g1 - 2), SubSeq(s, g1 + 1, g2 - 2),
                      SubSeq(s, g2 + 1, Len(s)))

\* relation.match(/^\s*([^->]+?)\s*->\s*([^->]+?)\s*->\s*(.+?)\s*$/): the
\* first two captures hold neither '-' nor '>', so each ends at the next '-',
\* which must start an arrow; the third capture is whatever follows and is
\* not empty.
RelationMatchRev2(s) ==
    LET d1 == IndexOfDashOrGt(s, 1) IN
    IF d1 < 2 \/ d1 + 1 > Len(s) \/ s[d1] # "-" THEN NoMatch
    ELSE IF s[d1 + 1] # ">" THEN NoMatch
    ELSE LET d2 == IndexOfDashOrGt(s, d1 + 2) IN
         IF d2 < d1 + 3 \/ d2 + 1 > Len(s) \/ s[d2] # "-" THEN NoMatch
         ELSE IF s[d2 + 1] # ">" \/ d2 + 1 = Len(s) THEN NoMatch
         ELSE Matched(SubSeq(s, 1, d1 - 1), SubSeq(s, d1 + 2, d2 - 1),
                      SubSeq(s, d2 + 2, Len(s)))

GraphNode(name) == [id |-> name, label |-> name]

\* An array of nodes in place of the Map: every mention is pushed.
NodesArrayPush(nodes, name) == Append(nodes, GraphNode(name))

\* Map.prototype.set on the insertion-ordered nodesMap: a new key is appended,
\* an existing key keeps its place.
NodesMapSet(nodes, name) ==
    IF \E k \in 1..Len(nodes) : nodes[k].id = name
    THEN [k \in 1..Len(nodes) |-> IF nodes[k].id = name THEN GraphNode(name) ELSE nodes[k]]
    ELSE Append(nodes, GraphNode(name))

\* The decimal digits of an array index below 10.
IndexDigits(n) == <<<<"0">>, <<"1">>, <<"2">>, <<"3">>, <<"4">>, <<"5">>, <<"6">>, <<"7">>, <<"8">>, <<"9">>>>[n + 1]

\* The relations.forEach of parseGraph (first revision) from the accumulated
\* nodes and edges: a matching line with a non-empty source and target sets
\* both nodes and pushes the edge with id `${source}-${label}-${target}`.
RECURSIVE parseGraphEach(_, _, _)
parseGraphEach(relations, nodes, edges) ==
    IF relations = <<>> THEN [nodes |-> nodes, edges |-> edges]
    ELSE LET m == RelationMatch(Head(relations)) IN
         IF ~m.matched \/ m.source = <<>> \/ m.target = <<>>
         THEN parseGraphEach(Tail(relations), nodes, edges)
         ELSE parseGraphEach(
                  Tail(relations),
                  NodesMapSet(NodesMapSet(nodes, m.source), m.target),
                  Append(edges, [id |-> m.source \o <<"-">> \o m.label \o <<"-">> \o m.target,
                                 from |-> m.source, to |-> m.target, label |-> m.label]))

\* edges.filter((e, i) => edges.findIndex(ee => ee.id === e.id) === i)
RECURSIVE FilterFirstById(_, _)
FilterFirstById(edges, i) ==
    IF i > Len(edges) THEN <<>>
    ELSE IF \E k \in 1..(i - 1) : edges[k].id = edges[i].id
         THEN FilterFirstById(edges, i + 1)
         ELSE <<edges[i]>> \o FilterFirstById(edges, i + 1)

\* parseGraph, first revision.
parseGraph(relations) ==
    LET acc == parseGraphEach(relations, <<>>, <<>>) IN
    [nodes |-> acc.nodes, edges |-> FilterFirstById(acc.edges, 1)]

\* The relations.forEach of parseGraph (second revision): every matching line
\* adds its nodes when absent and pushes the edge; index is the line's index.
RECURSIVE parseGraphRev2Each(_, _, _, _)
parseGraphRev2Each(relations, index, nodes, edges) ==
    IF relations = <<>> THEN [nodes |-> nodes, edges |-> edges]
    ELSE LET m == RelationMatchRev2(Head(relations)) IN
         IF ~m.matched
         THEN parseGraphRev2Each(Tail(relations), index + 1, nodes, edges)
         ELSE LET n1 == IF \E k \in 1..Len(nodes) : nodes[k].id = m.source
                        THEN nodes ELSE Append(nodes, GraphNode(m.source))
                  n2 == IF \E k \in 1..Len(n1) : n1[k].id = m.target
                        THEN n1 ELSE Append(n1, GraphNode(m.target))
              IN parseGraphRev2Each(
                     Tail(relations), index + 1, n2,
                     Append(edges, [id |-> m.source \o <<"-">> \o m.label \o <<"-">>
                                              \o m.target \o <<"-">> \o IndexDigits(index),
                                    from |-> m.source, to |-> m.target, label |-> m.label]))

\* edges.filter((edge, index) => edges.findIndex(e => e.from === edge.from &&
\* e.to === edge.to && e.label === edge.label) === index)
RECURSIVE FilterFirstByTriple(_, _)
FilterFirstByTriple(edges, i) ==
    IF i > Len(edges) THEN <<>>
    ELSE IF \E k \in 1..(i - 1) : /\ edges[k].from = edges[i].from
                                 /\ edges[k].to = edges[i].to
                                 /\ edges[k].label = edges[i].label
         THEN FilterFirstByTriple(edges, i + 1)
         ELSE <<edges[i]>> \o FilterFirstByTriple(edges, i + 1)

\* parseGraph, second revision.
parseGraphRev2(relations) ==
    LET acc == parseGraphRev2Each(relations, 0, <<>>, <<>>) IN
    [nodes |-> acc.nodes, edges |-> FilterFirstByTriple(acc.edges, 1)]

\* Relation strings used to exercise the parsers.
Arrow == <<" ", "-", ">", " ">>
TightArrow == <<"-", ">">>

RelationStrings ==
    { <<"A">> \o Arrow \o <<"r">> \o Arrow \o <<"B">>,
      <<"A">> \o TightArrow \o <<"r">> \o TightArrow \o <<"B">>,
      <<"B">> \o Arrow \o <<"s">> \o Arrow \o <<"A">>,
      <<"A">> \o Arrow \o <<"s">> \o Arrow \o <<"B">>,
      Arrow \o <<"r">> \o Arrow \o <<"B">>,
      <<"A">> \o Arrow \o <<"r">> \o Arrow,
      <<"A">> \o Arrow \o Arrow \o <<"B">>,
      <<"A", " ", "B">>,
      <<"A">> \o Arrow \o <<"B">>,
      <<"A">> \o Arrow \o <<"r">> \o Arrow \o <<"B">> \o Arrow \o <<"C">>,
      <<"A", "-", "B">> \o Arrow \o <<"r">> \o Arrow \o <<"C">>,
      <<"A">> \o Arrow \o <<"B", "-", "r">> \o Arrow \o <<"C">> }

\* Longest relation list given to a parser.
MaxRelations == 2

\* ------------------------------------------------------------------------
\* Streaming answer assembler of the Chat page: events and their handling
\* ------------------------------------------------------------------------

\* Keys of the context object of a response, and the marker of a key that is
\* not set.
CtxKeys == {"data_points", "thoughts", "followup_questions"}
Absent == "undefined"

\* A context object with no key set (also: context itself undefined).
NoContext == [k \in CtxKeys |-> Absent]

\* One decoded line of the stream: event["context"] (hasContext) with its keys,
\* event["delta"] (hasDelta) with its content, event["error"] (hasError).
StreamEvent(hasContext, context, hasDelta, content, hasError) ==
    [hasContext |-> hasContext, context |-> context, hasDelta |-> hasDelta,
     content |-> content, hasError |-> hasError]

FrameEvent(dataPoints, thoughts) ==
    StreamEvent(TRUE,
                [data_points |-> dataPoints, thoughts |-> thoughts,
                 followup_questions |-> Absent],
                TRUE, <<>>, FALSE)

DeltaEvent(content) == StreamEvent(FALSE, NoContext, TRUE, content, FALSE)

ContextEvent(thoughts, followup) ==
    StreamEvent(TRUE,
                [data_points |-> Absent, thoughts |-> thoughts,
                 followup_questions |-> followup],
                FALSE, <<>>, FALSE)

ErrorEvent == StreamEvent(FALSE, NoContext, FALSE, <<>>, TRUE)

\* The events the backend can emit, by number.
EventTable ==
    << FrameEvent("d1", "t1"),
       FrameEvent("d2", Absent),
       DeltaEvent(<<"a">>),
       DeltaEvent(<<"b">>),
       ContextEvent("t2", "q1"),
       ErrorEvent >>

EventIds == 1..Len(EventTable)

\* A classification that does not see the error branch.
EventBranchWithoutError(e) ==
    IF e.hasContext /\ e.context["data_points"] # Absent THEN "frame"
    ELSE IF e.hasDelta /\ e.content # <<>> THEN "delta"
    ELSE IF e.hasContext THEN "context"
    ELSE "ignored"

\* The if / else-if chain of the for-await loop of handleAsyncRequest.
EventBranch(e) ==
    IF e.hasContext /\ e.context["data_points"] # Absent THEN "frame"
    ELSE IF e.hasDelta /\ e.content # <<>> THEN "delta"
    ELSE IF e.hasContext THEN "context"
    ELSE IF e.hasError THEN "error"
    ELSE "ignored"

\* askResponse.context = { ...askResponse.context, ...event["context"] }
MergeContext(old, new) ==
    [k \in CtxKeys |-> IF new[k] # Absent THEN new[k] ELSE old[k]]

\* An update that puts the new fragment in front.
AppendContentInFront(answer, newContent) == newContent \o answer

\* answer += newContent (in the timer callback of updateState)
AppendContent(answer, newContent) == answer \o newContent

\* askResponse = {} as ChatAppResponse: no message, no context.
EmptyResponse == [hasMessage |-> FALSE, context |-> NoContext]

\* event["message"] = event["delta"]; askResponse = event
ResponseFromFrame(e) == [hasMessage |-> e.hasDelta, context |-> e.context]

\* One [user, response] pair of answers / streamedAnswers.
AnswerPair(question, content, context) ==
    [user |-> question, content |-> content, context |-> context]

\* ------------------------------------------------------------------------
\* The NDJSON reader between the response body and the for-await loop
\* ------------------------------------------------------------------------

\* The bytes of one line: two bytes of JSON text and the newline.
Newline == [ev |-> 0, part |-> 0]
EncodeLine(i) == <<[ev |-> i, part |-> 1], [ev |-> i, part |-> 2], Newline>>

\* JSON.parse succeeds on the complete text of one event only.
JSONParses(text) ==
    /\ Len(text) = 2
    /\ text[1].part = 1
    /\ text[2].part = 2
    /\ text[1].ev = text[2].ev

\* The reader's loop over the newline-separated pieces of one chunk: each
\* piece is added to the running text, which is yielded and cleared when it
\* parses.
RECURSIVE ReadPieces(_, _, _)
ReadPieces(pieces, runningText, events) ==
    IF pieces = <<>> THEN [runningText |-> runningText, events |-> events]
    ELSE LET text == runningText \o Head(pieces) IN
         IF JSONParses(text)
         THEN ReadPieces(Tail(pieces), <<>>, Append(events, text[1].ev))
         ELSE ReadPieces(Tail(pieces), text, events)

ReadChunkInto(chunk, runningText) == ReadPieces(Split(chunk, Newline), runningText, <<>>)

\* Events the backend emits in one run, over all questions.
MaxEvents == 4

\* Questions submitted in one run.
MaxQuestions == 2

Questions == {"q1"}

\* ------------------------------------------------------------------------
\* Chat page, graph mode: handleGraphStreamResponse
\* ------------------------------------------------------------------------

\* The response body is text with "event:" / "data:" lines. Its literals
\* travel as one element each: the line break, the two line prefixes, the
\* opening and the closing of the JSON payload of a nodes event, the comma
\* between two relations and the arrow inside a relation; everything else is
\* one element per character.
LineBreak == "\n"
DataPrefix == "data: "
NodesPrefix == "event: nodes"
NodesOpen == "{\"nodes\":["
NodesClose == "]}"
Comma == ","
ArrowText == " -> "

\* String.prototype.startsWith for a literal.
StartsWith(line, literal) == line # <<>> /\ line[1] = literal

\* String.prototype.replace(literal, ""): the first occurrence is removed.
RemoveFirst(line, literal) ==
    LET p == IndexOfFrom(line, literal, 1) IN
    IF p = 0 THEN line ELSE SubSeq(line, 1, p - 1) \o SubSeq(line, p + 1, Len(line))

\* Array.prototype.indexOf, counted from 0; -1 when the element is not there.
RECURSIVE ArrayIndexOfFrom(_, _, _)
ArrayIndexOfFrom(array, x, from) ==
    IF from > Len(array) THEN -1
    ELSE IF array[from] = x THEN from - 1
    ELSE ArrayIndexOfFrom(array, x, from + 1)

ArrayIndexOf(array, x) == ArrayIndexOfFrom(array, x, 1)

\* JSON.parse of the payload of a nodes event, and the nodes array of the
\* object: the text parses when it is the opening, relations separated by
\* commas, and the closing.
JSONParseNodes(text) ==
    IF /\ Len(text) >= 2
       /\ text[1] = NodesOpen
       /\ text[Len(text)] = NodesClose
       /\ \A k \in 2..(Len(text) - 1) : text[k] \notin {NodesOpen, NodesClose, DataPrefix}
    THEN LET inner == SubSeq(text, 2, Len(text) - 1) IN
         [ok |-> TRUE, nodes |-> IF inner = <<>> THEN <<>> ELSE Split(inner, Comma)]
    ELSE [ok |-> FALSE, nodes |-> <<>>]

\* An edge key made of the pair itself.
PairKey(from, to) == <<from, to>>

\* const edgeKey = `${from}-${to}`
StreamEdgeKey(from, to) == from \o <<"-">> \o to

StreamEdge(from, to, relationship) == [from |-> from, to |-> to, label |-> relationship]

\* The locals of handleGraphStreamResponse: result, newGraphNodes,
\* newGraphEdges, existingNodeIds, existingEdgeKeys; attached says that a
\* setAnswers call has put the two arrays into the answer, and relations is
\* the history of the three-part relations the forEach body has handled.
NoStreamLocals ==
    [result |-> <<>>, newGraphNodes |-> <<>>, newGraphEdges |-> <<>>,
     existingNodeIds |-> {}, existingEdgeKeys |-> {}, attached |-> FALSE,
     relations |-> <<>>]

\* if (!existingNodeIds.has(id)) { newGraphNodes.push(...); existingNodeIds.add(id) }
AddStreamNode(st, id) ==
    IF id \in st.existingNodeIds THEN st
    ELSE [st EXCEPT !.newGraphNodes = Append(@, GraphNode(id)),
                    !.existingNodeIds = @ \cup {id}]

\* The body of nodeData.nodes.forEach for one relation string.
AddStreamRelation(st, node) ==
    LET parts == Split(node, ArrowText) IN
    IF Len(parts) # 3 THEN st
    ELSE LET from == parts[1]
             relationship == parts[2]
             to == parts[3]
             withNodes == AddStreamNode(AddStreamNode(
                              [st EXCEPT !.relations = Append(@, StreamEdge(from, to, relationship))],
                              from), to)
             edgeKey == StreamEdgeKey(from, to)
         IN
         IF edgeKey \in withNodes.existingEdgeKeys THEN withNodes
         ELSE [withNodes EXCEPT
                   !.newGraphEdges = Append(@, StreamEdge(from, to, relationship)),
                   !.existingEdgeKeys = @ \cup {edgeKey}]

RECURSIVE AddStreamRelations(_, _)
AddStreamRelations(st, nodes) ==
    IF nodes = <<>> THEN st
    ELSE AddStreamRelations(AddStreamRelation(st, Head(nodes)), Tail(nodes))

\* The branch of a line that starts with "event: nodes": the line after the
\* first line of the chunk equal to this one is taken as its data line.
NodesLine(st, lines, line) ==
    LET at == ArrayIndexOf(lines, line) + 1 IN
    IF at + 1 > Len(lines) THEN st
    ELSE LET dataLine == lines[at + 1] IN
         IF ~StartsWith(dataLine, DataPrefix) THEN st
         ELSE LET nodeData == JSONParseNodes(RemoveFirst(dataLine, DataPrefix)) IN
              IF nodeData.ok THEN AddStreamRelations(st, nodeData.nodes) ELSE st

\* The branch of a line that starts with "data: ": the payload, cut before a
\* nodes payload, is added to result character by character, and every
\* character puts result and the two arrays into the last answer.
TextLine(st, line) ==
    LET payload == RemoveFirst(line, DataPrefix)
        p == IndexOfFrom(payload, NodesOpen, 1)
        wordChunk == IF p # 0 THEN Trim(SubSeq(payload, 1, p - 1)) ELSE payload
    IN
    IF wordChunk = <<>> THEN st
    ELSE [st EXCEPT !.result = @ \o wordChunk, !.attached = TRUE]

\* The body of the loop over the lines of a chunk.
StreamLine(st, lines, raw) ==
    LET line == Trim(raw) IN
    IF StartsWith(line, NodesPrefix) THEN NodesLine(st, lines, line)
    ELSE IF StartsWith(line, DataPrefix) THEN TextLine(st, line)
    ELSE st

RECURSIVE StreamLines(_, _, _)
StreamLines(st, lines, k) ==
    IF k > Len(lines) THEN st
    ELSE StreamLines(StreamLine(st, lines, lines[k]), lines, k + 1)

\* One turn of the while loop on a decoded chunk.
StreamChunk(st, chunk) == StreamLines(st, Split(chunk, LineBreak), 1)

\* One [question, response] pair of answers in graph mode.
GraphAnswer(question, content, nodes, edges) ==
    [user |-> question, content |-> content,
     graphData |-> [nodes |-> nodes, edges |-> edges]]

\* setAnswers(prev => [...prev.slice(0, -1), [question, updatedEntry]])
ReplaceLast(prev, pair) == SubSeq(prev, 1, Len(prev) - 1) \o <<pair>>

\* The relations a nodes event can carry.
StreamRelation(from, relationship, to) ==
    from \o <<ArrowText>> \o relationship \o <<ArrowText>> \o to

\* What the backend can write: a line of text, a line of text that ends in a
\* blank, a nodes event with two relations between the same two nodes, a
\* nodes event with two relations whose ends differ but join to the same text.
TextEvent(payload) == <<DataPrefix>> \o payload \o <<LineBreak>>

NodesEvent(nodes) ==
    <<NodesPrefix, LineBreak, DataPrefix, NodesOpen>> \o Join(nodes, Comma)
        \o <<NodesClose, LineBreak>>

StreamEventTable ==
    << [kind |-> "text", payload |-> <<"a">>, nodes |-> <<>>],
       [kind |-> "text", payload |-> <<"b", " ">>, nodes |-> <<>>],
       [kind |-> "nodes", payload |-> <<>>,
        nodes |-> << StreamRelation(<<"A">>, <<"r">>, <<"B">>),
                     StreamRelation(<<"A">>, <<"s">>, <<"B">>) >>],
       [kind |-> "nodes", payload |-> <<>>,
        nodes |-> << StreamRelation(<<"A", "-", "B">>, <<"r">>, <<"C">>),
                     StreamRelation(<<"A">>, <<"r">>, <<"B", "-", "C">>) >>] >>

StreamEventIds == 1..Len(StreamEventTable)

EncodeStreamEvent(i) ==
    LET e == StreamEventTable[i] IN
    IF e.kind = "text" THEN TextEvent(e.payload) ELSE NodesEvent(e.nodes)

\* Events the backend writes in one run, and questions sent in one run.
MaxStreamEvents == 2
MaxGraphQuestions == 2

NoGraphCall ==
    [pc |-> "idle", question |-> "", before |-> <<>>, locals |-> NoStreamLocals,
     split |-> FALSE]

\* ------------------------------------------------------------------------
\* Chat page: overlapping invocations of makeApiRequest
\* ------------------------------------------------------------------------

\* The invocations of makeApiRequest in one run, in order of submission, and
\* the question of each.
CallIds == {1, 2}
TalkQuestion(c) == IF c = 1 THEN "q1" ELSE "q2"

\* Events the for-await loop of one invocation handles at most.
MaxTalkEvents == 3

\* Invocations of clearChat in one run.
MaxClears == 1

\* The events a response body can carry here: the frame, a fragment, an error.
TalkEvents == {1, 3, 6}

NoTalk ==
    [pc |-> "none", question |-> "", answers |-> <<>>, answer |-> <<>>,
     askResponse |-> EmptyResponse, newContent |-> <<>>, handled |-> 0,
     cause |-> "none"]

\* A functional update: the pair is appended to the state's current answers.
SetAnswersOnCurrent(closedOver, current, pair) == Append(current, pair)

\* setAnswers([...answers, [question, parsedResponse]]) with the answers the
\* invocation closed over when it started.
SetAnswers(closedOver, current, pair) == Append(closedOver, pair)

\* ------------------------------------------------------------------------
\* Policy data extraction: the record, the display rows and the progress
\* ------------------------------------------------------------------------

\* The seven header fields in the order of headerPrompts / headerFields, with
\* the label convertToDisplayRows shows and the characters of the field name.
HeaderFields ==
    << [field |-> "insuredName", label |-> "Insured Name",
        chars |-> <<"i", "n", "s", "u", "r", "e", "d", "N", "a", "m", "e">>],
       [field |-> "clientCode", label |-> "Client Code",
        chars |-> <<"c", "l", "i", "e", "n", "t", "C", "o", "d", "e">>],
       [field |-> "policyNumber", label |-> "Policy Number",
        chars |-> <<"p", "o", "l", "i", "c", "y", "N", "u", "m", "b", "e", "r">>],
       [field |-> "policyDates", label |-> "Policy Dates",
        chars |-> <<"p", "o", "l", "i", "c", "y", "D", "a", "t", "e", "s">>],
       [field |-> "policyType", label |-> "Policy Type",
        chars |-> <<"p", "o", "l", "i", "c", "y", "T", "y", "p", "e">>],
       [field |-> "policyPremium", label |-> "Policy Premium",
        chars |-> <<"p", "o", "l", "i", "c", "y", "P", "r", "e", "m", "i", "u", "m">>],
       [field |-> "expiringPolicyPremium", label |-> "Expiring Policy Premium",
        chars |-> <<"e", "x", "p", "i", "r", "i", "n", "g", "P", "o", "l", "i", "c", "y", "P", "r", "e", "m", "i", "u", "m">>] >>

HeaderFieldNames == {HeaderFields[k].field : k \in 1..Len(HeaderFields)}

\* const policyData = { headerInfo: { insuredName: '', ... }, sections: {} }.
\* sections is an object: its entries are kept in insertion order.
EmptyHeaderInfo == [f \in HeaderFieldNames |-> <<>>]
EmptyPolicyData == [headerInfo |-> EmptyHeaderInfo, sections |-> <<>>]

\* An entry of policyDataCache: undefined, or the record stored.
NoRecord == [present |-> FALSE, data |-> EmptyPolicyData]
CachedRecord(data) == [present |-> TRUE, data |-> data]

FieldValue(fieldName, value, page) ==
    [fieldName |-> fieldName, value |-> value, page |-> page]

HasSection(sections, name) == \E k \in 1..Len(sections) : sections[k].name = name

\* policyData.sections[section] = []: a new key is added at the end, an
\* existing key keeps its place and loses its fields.
SetSection(sections, name) ==
    IF HasSection(sections, name)
    THEN [k \in 1..Len(sections) |->
             IF sections[k].name = name
             THEN [name |-> name, fields |-> <<>>] ELSE sections[k]]
    ELSE Append(sections, [name |-> name, fields |-> <<>>])

\* policyData.sections[section].push(fieldValue)
PushField(sections, name, fieldValue) ==
    [k \in 1..Len(sections) |->
        IF sections[k].name = name
        THEN [name |-> name, fields |-> Append(sections[k].fields, fieldValue)]
        ELSE sections[k]]

IDontKnowDot == <<"I", " ", "d", "o", "n", "'", "t", " ", "k", "n", "o", "w", ".">>
IDontKnow == <<"I", " ", "d", "o", "n", "'", "t", " ", "k", "n", "o", "w">>
HeaderSection == <<"H", "e", "a", "d", "e", "r">>

\* A test that only turns away the empty value.
DisplayableNonEmpty(value) == value # <<>>

\* The test convertToDisplayRows applies to a value before it makes a row.
Displayable(value) ==
    /\ value # <<>>
    /\ value # NF
    /\ value # IDontKnowDot
    /\ value # IDontKnow

DisplayRow(key, section, field, value, page, isNew) ==
    [key |-> key, section |-> section, field |-> field, value |-> value,
     page |-> page, isNew |-> isNew]

\* existingKeys.has(key): existingKeys holds the keys of the rows so far.
HasKey(rows, key) == \E k \in 1..Len(rows) : rows[k].key = key

\* The loop of convertToDisplayRows over headerFields, from the k-th.
RECURSIVE HeaderRows(_, _, _)
HeaderRows(k, headerInfo, rows) ==
    IF k > Len(HeaderFields) THEN rows
    ELSE LET hf == HeaderFields[k]
             value == headerInfo[hf.field]
             key == HeaderSection \o <<"_">> \o hf.chars
         IN IF Displayable(value) /\ ~HasKey(rows, key)
            THEN HeaderRows(k + 1, headerInfo,
                            Append(rows, DisplayRow(key, HeaderSection, hf.label,
                                                    value, <<>>, TRUE)))
            ELSE HeaderRows(k + 1, headerInfo, rows)

\* The loop over the fields of one section.
RECURSIVE SectionFieldRows(_, _, _)
SectionFieldRows(section, fields, rows) ==
    IF fields = <<>> THEN rows
    ELSE LET field == Head(fields)
             key == section \o <<"_">> \o field.fieldName
         IN IF Displayable(field.value) /\ field.fieldName # <<>> /\ ~HasKey(rows, key)
            THEN SectionFieldRows(section, Tail(fields),
                                  Append(rows, DisplayRow(key, section, field.fieldName,
                                                          field.value, field.page, TRUE)))
            ELSE SectionFieldRows(section, Tail(fields), rows)

\* The loop over Object.entries(data.sections).
RECURSIVE SectionRows(_, _)
SectionRows(sections, rows) ==
    IF sections = <<>> THEN rows
    ELSE SectionRows(Tail(sections),
                     SectionFieldRows(Head(sections).name, Head(sections).fields, rows))

\* A conversion that starts from no rows.
convertToDisplayRowsAnew(data, existingRows) ==
    SectionRows(data.sections, HeaderRows(1, data.headerInfo, <<>>))

\* convertToDisplayRows(data, existingRows) for a record that has both
\* headerInfo and sections: rows are added for keys not yet present.
convertToDisplayRows(data, existingRows) ==
    SectionRows(data.sections, HeaderRows(1, data.headerInfo, existingRows))

\* The partial records of the progressive updates:
\* { headerInfo: { [field]: value } } and { sections: { [section]: [fieldValue] } }.
HeaderOnly(field, value) ==
    [headerInfo |-> [EmptyHeaderInfo EXCEPT ![field] = value], sections |-> <<>>]
SectionOnly(section, fieldValue) ==
    [headerInfo |-> EmptyHeaderInfo,
     sections |-> <<[name |-> section, fields |-> <<fieldValue>>]>>]

\* currentDisplayRows.map(row => ({ ...row, isNew: false }))
MarkNotNew(rows) == [k \in 1..Len(rows) |-> [rows[k] EXCEPT !.isNew = FALSE]]

Min(a, b) == IF a < b THEN a ELSE b

\* A header progress that advances five points per field.
HeaderProgressLinear(i) == 5 + (i + 1) * 5

\* A header progress rounded up instead of down.
HeaderProgressCeil(i) == 5 + ((i + 1) * 25 + Len(HeaderFields) - 1) \div Len(HeaderFields)

\* 5 + Math.floor((i + 1) / headerPrompts.length * 25)
HeaderProgress(i) == 5 + ((i + 1) * 25) \div Len(HeaderFields)

\* Math.min(Math.floor(35 + i * sectionProgressWeight + (j + 1) * fieldProgressWeight), 98)
\* with sectionProgressWeight = 63 / sections.length and
\* fieldProgressWeight = sectionProgressWeight / (fields.length || 1).
SectionProgress(i, j, nSections, nFields) ==
    LET m == IF nFields = 0 THEN 1 ELSE nFields IN
    Min(35 + (63 * (i * m + j + 1)) \div (nSections * m), 98)

\* A cache test that never finds the record.
CacheHitNever(entry) == FALSE

\* if (policyDataCache[policyId])
CacheHit(entry) == entry.present

\* No in-flight test at all.
ExportGuardAbsent(inProgress) == FALSE

\* if (exportInProgress.current) return;
ExportGuard(inProgress) == inProgress

\* ------------------------------------------------------------------------
\* extractPolicyDataProgressively as a step machine: one step per awaited query
\* ------------------------------------------------------------------------

\* Texts the backend answers to the four kinds of prompt.
\* The backend's answer to the i-th header prompt: a text of its own for each
\* prompt, with the whitespace a model adds around it.
HeaderReply(i) == <<" ", "h">> \o IndexDigits(i)
HeaderReplies == {HeaderReply(i) : i \in 0..(Len(HeaderFields) - 1)}
SectionsReplies == { <<"P">>, <<"P", ",", "Q">>, <<"P", ",", " ", ",", "N", "F">> }
FieldsReplies == { <<"f">>, <<"f", ",", " ", "g">> }
\* The backend's answers to the value prompt of a field: value|page or the
\* value alone for the first field, a page range with a second pipe for g.
ValueRepliesFor(field) ==
    IF field = <<"g">>
    THEN { <<"w", "|", "1", "|", "2">> }
    ELSE { <<"v", "|", "1">>, <<"v">> }
ValueReplies == ValueRepliesFor(<<"f">>) \cup ValueRepliesFor(<<"g">>)

\* Network behaviours of one retrying query: the backend replies, or every
\* attempt fails.
QueryOracles(replies) ==
    {[k \in 1..OracleLen |-> OkReply(reply)] : reply \in replies}
        \cup {[k \in 1..OracleLen |-> FetchFailure]}

\* What queryRAGWithRetry can return for each kind of prompt.
HeaderResultsFor(i) == {queryRAGWithRetry(outs) : outs \in QueryOracles({HeaderReply(i)})}
HeaderResults == UNION {HeaderResultsFor(i) : i \in 0..(Len(HeaderFields) - 1)}
SectionsResults == {queryRAGWithRetry(outs) : outs \in QueryOracles(SectionsReplies)}
FieldsResults == {queryRAGWithRetry(outs) : outs \in QueryOracles(FieldsReplies)}
ValueResultsFor(field) == {queryRAGWithRetry(outs) : outs \in QueryOracles(ValueRepliesFor(field))}
ValueResults == {queryRAGWithRetry(outs) : outs \in QueryOracles(ValueReplies)}

\* One invocation of extractPolicyDataProgressively: where it is (pc, i, j),
\* its locals, and what it has reported through setProgress and
\* onPartialResults. partialData is not kept apart: it holds the same header
\* values and section fields as policyData at every await. issued,
\* outstanding and fieldLists are history: the queries issued so far, in
\* order, how many of them have not resolved, and the field list found for
\* each section worked on; shownRows is the history of the display rows
\* passed to onPartialResults.
ExtractionRun(policyId, cachedAtStart) ==
    [pc |-> "header", policyId |-> policyId, i |-> 0, j |-> 0,
     policyData |-> EmptyPolicyData, currentDisplayRows |-> <<>>,
     sections |-> <<>>, fields |-> <<>>,
     queries |-> 0, progressLog |-> <<>>,
     snapshotCount |-> 0, lastSnapshot |-> EmptyPolicyData, lastRows |-> <<>>,
     cachedAtStart |-> cachedAtStart, result |-> NoRecord,
     issued |-> <<>>, outstanding |-> 0, fieldLists |-> <<>>, shownRows |-> <<>>]

NoRun == [ExtractionRun("", NoRecord) EXCEPT !.pc = "none"]

\* setProgress(value)
ReportProgress(run, value) == [run EXCEPT !.progressLog = Append(@, value)]

\* onPartialResults(data, rows)
ReportSnapshot(run, data, rows) ==
    [run EXCEPT !.snapshotCount = @ + 1, !.lastSnapshot = data, !.lastRows = rows,
                !.shownRows = Append(@, rows)]

\* After the loops: the record is stored in the cache by the caller of this
\* operator, 100 is reported, the final snapshot is emitted with no row new,
\* and the record is returned.
FinishExtraction(run) ==
    LET rows == MarkNotNew(run.currentDisplayRows)
        reported == ReportSnapshot(ReportProgress(run, 100), run.policyData, rows)
    IN [reported EXCEPT !.pc = "done", !.currentDisplayRows = rows,
                        !.result = CachedRecord(run.policyData)]

\* The synchronous start: on a cache hit 100 and the cached record are
\* reported and returned; otherwise 5 is reported and the first header query
\* is issued.
StartExtraction(policyId, entry) ==
    LET run == ExtractionRun(policyId, entry) IN
    IF CacheHit(entry)
    THEN [ReportSnapshot(ReportProgress(run, 100), entry.data,
                         convertToDisplayRows(entry.data, <<>>))
             EXCEPT !.pc = "done", !.result = entry]
    ELSE ReportProgress(run, 5)

\* A loop that stores every answer under the first field.
HeaderFieldOfFirst(i) == HeaderFields[1].field

\* const [field, prompt] = headerPrompts[i]
HeaderFieldOf(i) == HeaderFields[i + 1].field

\* A value loop that runs through the field list from its end.
FieldAtFromEnd(fields, j) == fields[Len(fields) - j]

\* const field = fields[j]
FieldAt(fields, j) == fields[j + 1]

\* A query as the backend sees it: what it asks for, and of which header
\* field, section and section field.
QueryFor(kind, section, field) == [kind |-> kind, section |-> section, field |-> field]

\* The query the prompt of the position of run asks.
AwaitedQuery(run) ==
    IF run.pc = "header" THEN QueryFor("header", <<>>, HeaderFields[run.i + 1].chars)
    ELSE IF run.pc = "sections" THEN QueryFor("sections", <<>>, <<>>)
    ELSE IF run.pc = "fields" THEN QueryFor("fields", run.sections[run.i + 1], <<>>)
    ELSE QueryFor("value", run.sections[run.i + 1], FieldAt(run.fields, run.j))

\* await queryRAGWithRetry(prompt, policyId): the query is issued and the
\* invocation is suspended, unless it has returned.
Suspend(run) ==
    IF run.pc = "done" THEN run
    ELSE [run EXCEPT !.issued = Append(@, AwaitedQuery(run)), !.outstanding = @ + 1]

\* The awaited query resolves and the invocation resumes.
Resume(run) == [run EXCEPT !.outstanding = @ - 1]

\* The i-th header query returned res.
HeaderStep(run, res) ==
    LET field == HeaderFieldOf(run.i)
        found == res.value # <<>> /\ res.value # NF
        data == IF found
                THEN [run.policyData EXCEPT !.headerInfo[field] = Trim(res.value)]
                ELSE run.policyData
        rows == IF found
                THEN convertToDisplayRows(HeaderOnly(field, Trim(res.value)),
                                          run.currentDisplayRows)
                ELSE run.currentDisplayRows
        stored == [run EXCEPT !.queries = @ + res.calls, !.policyData = data,
                              !.currentDisplayRows = rows]
        shown == IF found THEN ReportSnapshot(stored, data, rows) ELSE stored
        progressed == ReportProgress(shown, HeaderProgress(run.i))
    IN IF run.i + 1 < Len(HeaderFields)
       THEN [progressed EXCEPT !.i = @ + 1]
       ELSE [ReportProgress(progressed, 30) EXCEPT !.pc = "sections", !.i = 0]

\* The end of the work on section i: the next section, or the end.
NextSection(run) ==
    IF run.i + 1 < Len(run.sections)
    THEN [run EXCEPT !.pc = "fields", !.i = @ + 1, !.j = 0, !.fields = <<>>]
    ELSE FinishExtraction(run)

\* The sections query returned res.
SectionsStep(run, res) ==
    LET sections == FilterPresent(MapTrim(Split(res.value, ",")))
        progressed == ReportProgress([run EXCEPT !.queries = @ + res.calls,
                                                 !.sections = sections], 35)
    IN IF sections = <<>>
       THEN FinishExtraction(progressed)
       ELSE [progressed EXCEPT !.pc = "fields", !.i = 0]

\* The fields query of section i returned res.
FieldsStep(run, res) ==
    LET section == run.sections[run.i + 1]
        fields == FilterPresent(MapTrim(Split(res.value, ",")))
        stored == [run EXCEPT !.queries = @ + res.calls, !.fields = fields,
                              !.fieldLists = Append(@, fields),
                              !.policyData.sections = SetSection(@, section)]
    IN IF fields = <<>>
       THEN NextSection(stored)
       ELSE [stored EXCEPT !.pc = "value", !.j = 0]

\* The value query of field j of section i returned res.
ValueStep(run, res) ==
    LET section == run.sections[run.i + 1]
        field == FieldAt(run.fields, run.j)
        parts == MapTrim(Split(res.value, "|"))
        value == parts[1]
        page == IF Len(parts) >= 2 THEN parts[2] ELSE <<>>
        found == value # <<>> /\ value # NF
        fieldValue == FieldValue(field, value, page)
        data == IF found
                THEN [run.policyData EXCEPT !.sections = PushField(@, section, fieldValue)]
                ELSE run.policyData
        rows == IF found
                THEN convertToDisplayRows(SectionOnly(section, fieldValue),
                                          run.currentDisplayRows)
                ELSE run.currentDisplayRows
        stored == [run EXCEPT !.queries = @ + res.calls, !.policyData = data,
                              !.currentDisplayRows = rows]
        shown == IF found THEN ReportSnapshot(stored, data, rows) ELSE stored
        progressed == ReportProgress(shown,
                          SectionProgress(run.i, run.j, Len(run.sections), Len(run.fields)))
    IN IF run.j + 1 < Len(run.fields)
       THEN [progressed EXCEPT !.j = @ + 1]
       ELSE NextSection(progressed)

\* Invocations of handleExport in one run of the model.
MaxClicks == 2

\* The entity ids, and the policyId prop of the control.
PolicyIds == {"p1"}
ControlPolicyId == "p1"

\* ------------------------------------------------------------------------
\* The earlier revisions of the extractor: BackgroundExportService.extractPolicyData
\* and the extractPolicyData of the first ExportToExcelButton
\* ------------------------------------------------------------------------

\* The try block of their queryRAG: data.message.content.trim() throws when
\* the content is missing; an empty trimmed text becomes 'NF'.
queryRAGPlainTry(o) ==
    IF CallFailed(o) \/ ~o.hasContent THEN Thrown
    ELSE Returned(IF Trim(o.text) = <<>> THEN NF ELSE Trim(o.text))

\* Their queryRAG: the catch block returns 'NF'.
queryRAGPlain(o) ==
    LET r == queryRAGPlainTry(o) IN
    IF r.threw THEN Returned(NF) ELSE r

\* Texts the backend answers to the prompts of these revisions.
PlainHeaderReplies == { <<"h">> }
Property == <<"P", "r", "o", "p", "e", "r", "t", "y">>
Auto == <<"A", "u", "t", "o">>
\* The first group prompt names Property and Auto; the backend may repeat
\* Property for the second group, and finds no section of the last two.
PlainGroupRepliesFor(i) ==
    IF i = 0
    THEN { Property, <<" ">> \o Property \o <<" ", ",", " ", ",">> \o Auto }
    ELSE IF i = 1 THEN { Property }
    ELSE { NF }
PlainGroupReplies == UNION {PlainGroupRepliesFor(i) : i \in 0..3}
PlainFieldsReplies == { <<"f">> }
PlainValueReplies == { <<"v", "|", "1">>, <<"v">> }

PlainResults(replies) ==
    {queryRAGPlain(o).value : o \in {OkReply(reply) : reply \in replies} \cup {FetchFailure}}

\* The four sectionGroupPrompts.
SectionGroupCount == 4

\* A progress value of the background service, as a fraction: the section
\* progress 65 + i * (40 / allSections.length) need not be whole.
Fraction(num, den) == [num |-> num, den |-> den]

\* Math.min(65 + (i * progressPerSection), 95)
BackgroundSectionProgress(i, nSections) ==
    IF 65 * nSections + 40 * i <= 95 * nSections
    THEN Fraction(65 * nSections + 40 * i, nSections)
    ELSE Fraction(95, 1)

\* One invocation of extractPolicyData of revision rev ("background" for the
\* background service, "first" for the first control, "service" for
\* PolicyExtractionService, whose sectionData is the list of fields of the
\* section it is working on). groupResponses is history: what the section
\* group queries of the invocation returned.
PlainRun(rev) ==
    [rev |-> rev, pc |-> "header", i |-> 0, j |-> 0,
     policyData |-> EmptyPolicyData, allSections |-> <<>>, fields |-> <<>>,
     sectionData |-> <<>>, progressLog |-> <<>>, groupResponses |-> <<>>]

NoPlainRun == [PlainRun("none") EXCEPT !.pc = "idle"]

\* if (onProgress) onProgress(value): only the service reports progress.
PlainProgress(run, value) ==
    IF run.rev = "background"
    THEN [run EXCEPT !.progressLog = Append(@, value)]
    ELSE run

\* The end of the work on section i: its progress, then the next section or
\* the return of the record.
PlainNextSection(run) ==
    LET progressed == PlainProgress(run, BackgroundSectionProgress(run.i, Len(run.allSections)))
    IN IF run.i + 1 < Len(run.allSections)
       THEN [progressed EXCEPT !.pc = "fields", !.i = @ + 1, !.j = 0, !.fields = <<>>]
       ELSE [PlainProgress(progressed, Fraction(98, 1)) EXCEPT !.pc = "done"]

\* The i-th header query returned response: it is stored as it is.
PlainHeaderStep(run, response) ==
    LET stored == [run EXCEPT !.policyData.headerInfo[HeaderFields[run.i + 1].field] = response]
        progressed == PlainProgress(stored, Fraction(10 + run.i * 5, 1))
    IN IF run.i + 1 < Len(HeaderFields)
       THEN [progressed EXCEPT !.i = @ + 1]
       ELSE [progressed EXCEPT !.pc = "groups", !.i = 0]

\* Array.prototype.filter(s => s)
RECURSIVE FilterTruthy(_)
FilterTruthy(parts) ==
    IF parts = <<>> THEN <<>>
    ELSE IF Head(parts) # <<>>
         THEN <<Head(parts)>> \o FilterTruthy(Tail(parts))
         ELSE FilterTruthy(Tail(parts))

\* response.split(',').map(s => s.trim()), which PolicyExtractionService
\* follows with .filter(s => s).
SplitNames(rev, response) ==
    IF rev = "service"
    THEN FilterTruthy(MapTrim(Split(response, ",")))
    ELSE MapTrim(Split(response, ","))

\* A section list that takes a name once only.
RECURSIVE AddSectionsOnce(_, _)
AddSectionsOnce(allSections, sections) ==
    IF sections = <<>> THEN allSections
    ELSE AddSectionsOnce(
             IF \E k \in 1..Len(allSections) : allSections[k] = Head(sections)
             THEN allSections ELSE Append(allSections, Head(sections)),
             Tail(sections))

\* allSections = [...allSections, ...sections]
AddSections(allSections, sections) == allSections \o sections

\* The i-th section group query returned response.
PlainGroupStep(run, response) ==
    LET sections == IF response # <<>> /\ response # NF
                    THEN SplitNames(run.rev, response)
                    ELSE <<>>
        added == [run EXCEPT !.allSections = AddSections(@, sections)]
        progressed == PlainProgress(added, Fraction(45 + run.i * 5, 1))
    IN IF run.i + 1 < SectionGroupCount
       THEN [progressed EXCEPT !.i = @ + 1]
       ELSE IF progressed.allSections = <<>>
            THEN [PlainProgress(progressed, Fraction(98, 1)) EXCEPT !.pc = "done"]
            ELSE [progressed EXCEPT !.pc = "fields", !.i = 0]

\* PolicyExtractionService.extractSectionData returns: with push, after
\* policyData.sections.push(sectionData); then the next section or the return
\* of the record.
ServiceNextSection(run, push) ==
    LET pushed == IF push
                  THEN [run EXCEPT !.policyData.sections =
                            Append(@, [name |-> run.allSections[run.i + 1],
                                       fields |-> run.sectionData])]
                  ELSE run
    IN IF run.i + 1 < Len(run.allSections)
       THEN [pushed EXCEPT !.pc = "fields", !.i = @ + 1, !.j = 0,
                           !.fields = <<>>, !.sectionData = <<>>]
       ELSE [pushed EXCEPT !.pc = "done", !.sectionData = <<>>]

\* The fields query of extractSectionData returned response.
ServiceFieldsStep(run, response) ==
    IF response = <<>> \/ response = NF
    THEN ServiceNextSection(run, FALSE)
    ELSE LET fields == FilterTruthy(MapTrim(Split(response, ","))) IN
         IF fields = <<>>
         THEN ServiceNextSection([run EXCEPT !.sectionData = <<>>], TRUE)
         ELSE [run EXCEPT !.fields = fields, !.sectionData = <<>>,
                          !.pc = "value", !.j = 0]

\* The fields query of section i returned response.
PlainFieldsStep(run, response) ==
    IF run.rev = "service" THEN ServiceFieldsStep(run, response)
    ELSE IF response # <<>> /\ response # NF
    THEN [run EXCEPT !.fields = MapTrim(Split(response, ",")),
                     !.policyData.sections = SetSection(@, run.allSections[run.i + 1]),
                     !.pc = "value", !.j = 0]
    ELSE PlainNextSection(run)

\* The page of a field pushed without one.
UndefinedPage == <<"u", "n", "d", "e", "f", "i", "n", "e", "d">>

\* The value query of extractSectionData returned response:
\* parts[0]?.trim() || 'NF' and parts[1]?.trim() || '', or value 'NF' and no
\* page when the response is 'NF'.
ServiceValueStep(run, response) ==
    LET parts == Split(response, "|")
        name == run.fields[run.j + 1]
        fieldValue ==
            IF response # <<>> /\ response # NF
            THEN FieldValue(name,
                            IF Trim(parts[1]) = <<>> THEN NF ELSE Trim(parts[1]),
                            IF Len(parts) >= 2 THEN Trim(parts[2]) ELSE <<>>)
            ELSE FieldValue(name, NF, UndefinedPage)
        pushed == [run EXCEPT !.sectionData = Append(@, fieldValue)]
    IN IF run.j + 1 < Len(run.fields)
       THEN [pushed EXCEPT !.j = @ + 1]
       ELSE ServiceNextSection(pushed, TRUE)

\* The value query of field j of section i returned response:
\* const [value, page] = valueResponse.split('|'); page is undefined when the
\* response has no pipe, and page.trim() then throws a TypeError.
PlainValueStep(run, response) ==
    LET section == run.allSections[run.i + 1]
        parts == Split(response, "|")
        found == response # <<>> /\ response # NF
        next == IF run.j + 1 < Len(run.fields)
                THEN [run EXCEPT !.j = @ + 1]
                ELSE PlainNextSection(run)
    IN IF run.rev = "service" THEN ServiceValueStep(run, response)
       ELSE IF ~found THEN next
       ELSE IF Len(parts) < 2 THEN [run EXCEPT !.pc = "threw"]
       ELSE LET fieldValue == FieldValue(run.fields[run.j + 1], Trim(parts[1]), Trim(parts[2]))
                pushed == [run EXCEPT !.policyData.sections = PushField(@, section, fieldValue)]
            IN IF run.j + 1 < Len(run.fields)
               THEN [pushed EXCEPT !.j = @ + 1]
               ELSE PlainNextSection(pushed)

\* Invocations of these revisions in one run of the model.
MaxPlainRuns == 2

\* ------------------------------------------------------------------------
\* The control with the Show All Responses toggle (an earlier revision)
\* ------------------------------------------------------------------------

\* showAllResponses || (value && value !== 'NF' && ...)
ReviewDisplayable(value, showAllResponses) == showAllResponses \/ Displayable(value)

\* The row this revision pushes: value || 'NF', isNew: true, rawResponse: value
\* (an undefined value is the empty text here).
ReviewDisplayRow(key, section, field, value, page) ==
    [key |-> key, section |-> section, field |-> field,
     value |-> IF value = <<>> THEN NF ELSE value,
     page |-> page, isNew |-> TRUE, rawResponse |-> value]

\* The loop of this revision's convertToDisplayRows over headerFields.
RECURSIVE ReviewHeaderRows(_, _, _, _)
ReviewHeaderRows(k, headerInfo, rows, showAllResponses) ==
    IF k > Len(HeaderFields) THEN rows
    ELSE LET hf == HeaderFields[k]
             value == headerInfo[hf.field]
             key == HeaderSection \o <<"_">> \o hf.chars
         IN IF ReviewDisplayable(value, showAllResponses) /\ ~HasKey(rows, key)
            THEN ReviewHeaderRows(k + 1, headerInfo,
                     Append(rows, ReviewDisplayRow(key, HeaderSection, hf.label, value, <<>>)),
                     showAllResponses)
            ELSE ReviewHeaderRows(k + 1, headerInfo, rows, showAllResponses)

\* Its loop over the fields of one section.
RECURSIVE ReviewSectionFieldRows(_, _, _, _)
ReviewSectionFieldRows(section, fields, rows, showAllResponses) ==
    IF fields = <<>> THEN rows
    ELSE LET field == Head(fields)
             key == section \o <<"_">> \o field.fieldName
         IN IF (showAllResponses \/ (Displayable(field.value) /\ field.fieldName # <<>>))
               /\ ~HasKey(rows, key)
            THEN ReviewSectionFieldRows(section, Tail(fields),
                     Append(rows, ReviewDisplayRow(key, section, field.fieldName,
                                                   field.value, field.page)),
                     showAllResponses)
            ELSE ReviewSectionFieldRows(section, Tail(fields), rows, showAllResponses)

\* Its loop over Object.entries(data.sections).
RECURSIVE ReviewSectionRows(_, _, _)
ReviewSectionRows(sections, rows, showAllResponses) ==
    IF sections = <<>> THEN rows
    ELSE ReviewSectionRows(Tail(sections),
             ReviewSectionFieldRows(Head(sections).name, Head(sections).fields,
                                    rows, showAllResponses),
             showAllResponses)

\* convertToDisplayRows(data, existingRows, showAllResponses) of this revision
\* for a whole record.
convertToDisplayRowsShowAll(data, existingRows, showAllResponses) ==
    ReviewSectionRows(data.sections,
                      ReviewHeaderRows(1, data.headerInfo, existingRows, showAllResponses),
                      showAllResponses)

\* A row of the spreadsheet.
SheetRow(section, field, value, page) ==
    [Section |-> section, Field |-> field, Value |-> value, Page |-> page]

\* The header loop of transformToExcelFormat(data, includeEmpty).
RECURSIVE SheetHeaderRows(_, _, _, _)
SheetHeaderRows(k, headerInfo, rows, includeEmpty) ==
    IF k > Len(HeaderFields) THEN rows
    ELSE LET hf == HeaderFields[k]
             value == headerInfo[hf.field]
         IN IF includeEmpty \/ Displayable(value)
            THEN SheetHeaderRows(k + 1, headerInfo,
                     Append(rows, SheetRow(HeaderSection, hf.label, value, <<>>)),
                     includeEmpty)
            ELSE SheetHeaderRows(k + 1, headerInfo, rows, includeEmpty)

\* Its loop over the fields of one section.
RECURSIVE SheetFieldRows(_, _, _, _)
SheetFieldRows(section, fields, rows, includeEmpty) ==
    IF fields = <<>> THEN rows
    ELSE LET field == Head(fields) IN
         IF includeEmpty \/ (Displayable(field.value) /\ field.fieldName # <<>>)
         THEN SheetFieldRows(section, Tail(fields),
                  Append(rows, SheetRow(section, field.fieldName, field.value, field.page)),
                  includeEmpty)
         ELSE SheetFieldRows(section, Tail(fields), rows, includeEmpty)

\* Its loop over Object.entries(data.sections).
RECURSIVE SheetSectionRows(_, _, _)
SheetSectionRows(sections, rows, includeEmpty) ==
    IF sections = <<>> THEN rows
    ELSE SheetSectionRows(Tail(sections),
             SheetFieldRows(Head(sections).name, Head(sections).fields, rows, includeEmpty),
             includeEmpty)

\* transformToExcelFormat(data, includeEmpty) of this revision.
transformToExcelFormatInclude(data, includeEmpty) ==
    SheetSectionRows(data.sections,
                     SheetHeaderRows(1, data.headerInfo, <<>>, includeEmpty),
                     includeEmpty)

\* transformToExcelFormat(data) of the current control: the same loops
\* without the includeEmpty parameter.
transformToExcelFormat(data) ==
    SheetSectionRows(data.sections, SheetHeaderRows(1, data.headerInfo, <<>>, FALSE), FALSE)

\* Texts the backend answers to the prompts of this revision: the first two
\* header prompts may be answered with "I don't know." and "I don't know".
ReviewHeaderRepliesFor(i) ==
    IF i = 0 THEN { HeaderReply(0), IDontKnowDot }
    ELSE IF i = 1 THEN { HeaderReply(1), <<" ">> \o IDontKnow }
    ELSE { HeaderReply(i) }
ReviewSectionsReplies == { <<"P">>, <<"P", ",", "Q">> }
ReviewFieldsReplies == { <<"f">> }
ReviewValueReplies == { <<"v", "|", "1">>, IDontKnowDot \o <<"|", "2">> }

\* What the plain queryRAG of this revision returns.
ReviewPlainResults(replies) ==
    {queryRAG(o).value : o \in {OkReply(reply) : reply \in replies} \cup {FetchFailure}}

ReviewHeaderResultsFor(i) == ReviewPlainResults(ReviewHeaderRepliesFor(i))
ReviewHeaderResults == UNION {ReviewHeaderResultsFor(i) : i \in 0..(Len(HeaderFields) - 1)}
ReviewValueResults == ReviewPlainResults(ReviewValueReplies)

\* What its queryWithRetry returns for the sections and fields prompts.
ReviewSectionsResults == {queryWithRetry(outs) : outs \in QueryOracles(ReviewSectionsReplies)}
ReviewFieldsResults == {queryWithRetry(outs) : outs \in QueryOracles(ReviewFieldsReplies)}

\* One invocation of this revision's extractPolicyData: where it is, its
\* locals, the progress values and the last snapshot rows it reported, the
\* effects of its last block in the order they happened, and the projections
\* made of its record once it has returned.
ReviewRun(showAllResponses) ==
    [pc |-> "header", showAllResponses |-> showAllResponses, i |-> 0, j |-> 0,
     policyData |-> EmptyPolicyData, currentDisplayRows |-> <<>>,
     sections |-> <<>>, fields |-> <<>>, progressLog |-> <<>>,
     snapshotCount |-> 0, lastSnapshot |-> EmptyPolicyData, lastRows |-> <<>>,
     doneEffects |-> <<>>, cachedAtStart |-> FALSE,
     displayed |-> <<>>, sheet |-> <<>>, sheetInclude |-> <<>>]

NoReviewRun == [ReviewRun(FALSE) EXCEPT !.pc = "idle"]

ReviewProgress(run, value) == [run EXCEPT !.progressLog = Append(@, value)]

\* onPartialResults({...partialData}, [...currentDisplayRows], showAllResponses)
ReviewSnapshot(run, rows) ==
    [run EXCEPT !.snapshotCount = @ + 1, !.currentDisplayRows = rows, !.lastRows = rows]

\* After the loops: the record is stored in the cache, 100 is reported, the
\* rows are rebuilt from the whole record and the final snapshot is emitted.
ReviewFinish(run) ==
    LET rows == convertToDisplayRowsShowAll(run.policyData, <<>>, run.showAllResponses)
        reported == ReviewSnapshot(ReviewProgress(run, 100), rows)
    IN [reported EXCEPT !.pc = "done", !.lastSnapshot = run.policyData,
                        !.doneEffects = <<"cache", "progress", "snapshot">>]

\* The synchronous start of this revision.
ReviewStartExtraction(entry, showAllResponses) ==
    LET run == ReviewRun(showAllResponses) IN
    IF CacheHit(entry)
    THEN [ReviewSnapshot(ReviewProgress(run, 100),
                         convertToDisplayRowsShowAll(entry.data, <<>>, showAllResponses))
             EXCEPT !.pc = "done", !.policyData = entry.data,
                    !.lastSnapshot = entry.data, !.cachedAtStart = TRUE]
    ELSE ReviewProgress(run, 5)

\* The i-th header query returned result: it is stored trimmed whatever it
\* is, and a snapshot is emitted.
ReviewHeaderStep(run, result) ==
    LET field == HeaderFieldOf(run.i)
        stored == [run EXCEPT !.policyData.headerInfo[field] = Trim(result)]
        rows == ReviewHeaderRows(1, HeaderOnly(field, Trim(result)).headerInfo,
                                 run.currentDisplayRows, run.showAllResponses)
        progressed == ReviewProgress(ReviewSnapshot(stored, rows), HeaderProgress(run.i))
    IN IF run.i + 1 < Len(HeaderFields)
       THEN [progressed EXCEPT !.i = @ + 1]
       ELSE [progressed EXCEPT !.pc = "sections", !.i = 0]

ReviewNextSection(run) ==
    IF run.i + 1 < Len(run.sections)
    THEN [run EXCEPT !.pc = "fields", !.i = @ + 1, !.j = 0, !.fields = <<>>]
    ELSE ReviewFinish(run)

\* The sections query returned res.
ReviewSectionsStep(run, res) ==
    LET sections == FilterPresent(MapTrim(Split(res.value, ",")))
        progressed == ReviewProgress([run EXCEPT !.sections = sections], 35)
    IN IF sections = <<>>
       THEN ReviewFinish(progressed)
       ELSE [progressed EXCEPT !.pc = "fields", !.i = 0]

\* The fields query of section i returned res.
ReviewFieldsStep(run, res) ==
    LET section == run.sections[run.i + 1]
        fields == FilterPresent(MapTrim(Split(res.value, ",")))
        stored == [run EXCEPT !.fields = fields,
                              !.policyData.sections = SetSection(@, section)]
    IN IF fields = <<>>
       THEN ReviewNextSection(stored)
       ELSE [stored EXCEPT !.pc = "value", !.j = 0]

\* The value query of field j of section i returned valueResponse: the field
\* is pushed whatever its value is, and a snapshot is emitted.
ReviewValueStep(run, valueResponse) ==
    LET section == run.sections[run.i + 1]
        parts == MapTrim(Split(valueResponse, "|"))
        fieldData == FieldValue(run.fields[run.j + 1], parts[1],
                                IF Len(parts) >= 2 THEN parts[2] ELSE <<>>)
        stored == [run EXCEPT !.policyData.sections = PushField(@, section, fieldData)]
        rows == ReviewSectionFieldRows(section, <<fieldData>>, run.currentDisplayRows,
                                       run.showAllResponses)
        progressed == ReviewProgress(ReviewSnapshot(stored, rows),
                          SectionProgress(run.i, run.j, Len(run.sections), Len(run.fields)))
    IN IF run.j + 1 < Len(run.fields)
       THEN [progressed EXCEPT !.j = @ + 1]
       ELSE ReviewNextSection(progressed)

\* Invocations of this revision's extractPolicyData in one run of the model.
MaxReviewRuns == 2

\* ------------------------------------------------------------------------
\* A policy whose sections and fields repeat
\* ------------------------------------------------------------------------

\* The backend's answers about a policy in which a section is listed twice,
\* a field is listed twice, and a section name with a field name gives the
\* same text as another section with another field ("P" with "f_g",
\* "P_f" with "g"). The value of the j-th field of the i-th section is a
\* text of its own.
RowsSectionsReplies ==
    { <<"P", ",", "P">>, <<"P", ",", "P", "_", "f">> }

RowsFieldsRepliesFor(section) ==
    IF section = <<"P">> THEN { <<"f", ",", "f">>, <<"f", "_", "g">> }
    ELSE { <<"g">> }

RowsValueReply(i, j) == <<"v">> \o IndexDigits(i) \o IndexDigits(j) \o <<"|", "1">>

\* What queryRAGWithRetry can return to the query the invocation awaits: the
\* answer, or 'NF' after failed attempts (header queries after the second
\* always answer).
RowsResultsFor(run) ==
    IF run.pc = "header"
    THEN IF run.i > 1
         THEN {queryRAGWithRetry([k \in 1..OracleLen |-> OkReply(HeaderReply(run.i))])}
         ELSE {queryRAGWithRetry(outs) : outs \in QueryOracles({HeaderReply(run.i)})}
    ELSE IF run.pc = "sections"
    THEN {queryRAGWithRetry(outs) : outs \in QueryOracles(RowsSectionsReplies)}
    ELSE IF run.pc = "fields"
    THEN {queryRAGWithRetry(outs) :
              outs \in QueryOracles(RowsFieldsRepliesFor(run.sections[run.i + 1]))}
    ELSE IF run.pc = "value"
    THEN {queryRAGWithRetry(outs) : outs \in QueryOracles({RowsValueReply(run.i, run.j)})}
    ELSE {}

\* ------------------------------------------------------------------------
\* BackgroundExportService: jobs, their records and their events
\* ------------------------------------------------------------------------

\* Jobs started in one run of the service.
MaxJobs == 2

\* Sections one extraction may collect.
MaxJobSections == 2

RECURSIVE Factorial(_)
Factorial(n) == IF n = 0 THEN 1 ELSE n * Factorial(n - 1)

\* progress is a number: 40 / allSections.length need not be whole. The model
\* counts progress in parts of 1 / ProgressUnit of a percent, which makes
\* every value whole for up to MaxJobSections sections.
ProgressUnit == Factorial(MaxJobSections)
Percent(p) == p * ProgressUnit

\* sectionGroupPrompts.length
SectionGroupPrompts == 4

\* The job object of startExport. fileName and startTime are set once and
\* copied by every spread; they are left out.
ExportJob(id, policyId) ==
    [id |-> id, policyId |-> policyId, status |-> "running", progress |-> 0,
     error |-> "undefined", hasResult |-> FALSE, result |-> EmptyPolicyData]

\* The try block of the service's queryRAG: throws on a rejected fetch, a
\* non-2xx status, a body that is not JSON or has no message.content;
\* otherwise data.message.content.trim(), 'NF' when that is empty.
backgroundQueryRAGTry(o) ==
    IF o.kind # "ok" THEN Thrown
    ELSE IF ~o.hasContent THEN Thrown
    ELSE LET responseText == Trim(o.text) IN
         Returned(IF responseText = <<>> THEN NF ELSE responseText)

\* queryRAG of the service: the catch block returns 'NF'.
backgroundQueryRAG(o) ==
    LET r == backgroundQueryRAGTry(o) IN
    IF r.threw THEN NF ELSE r.value

\* The locals of one runExtractionInBackground / extractPolicyData: the job
\* object the closure holds, the loop indices, allSections, the fields of the
\* section at hand and policyData. pc is the await it is suspended at.
NoExtraction ==
    [pc |-> "none", job |-> ExportJob(0, ""), i |-> 0, k |-> 0,
     allSections |-> <<>>, fields |-> <<>>, policyData |-> EmptyPolicyData]

\* this.emit(type, job): the events are kept by the id of the job they carry.
Emit(events, type, job) ==
    [events EXCEPT ![job.id] = Append(@, [type |-> type, job |-> job])]

\* The service and one extraction: activeJobs, the events emitted so far and
\* the extraction's locals.
Service(jobs, events, run) == [jobs |-> jobs, events |-> events, run |-> run]

\* updateJobProgress that writes the record of the job started first.
updateJobProgressOfFirst(m, jobId, progress) ==
    IF 1 \in DOMAIN m.jobs
    THEN LET updatedJob == [m.jobs[1] EXCEPT !.progress = progress] IN
         [m EXCEPT !.jobs[1] = updatedJob,
                   !.events = Emit(@, "job_updated", updatedJob)]
    ELSE m

\* updateJobProgress(jobId, progress)
updateJobProgress(m, jobId, progress) ==
    IF jobId \in DOMAIN m.jobs
    THEN LET updatedJob == [m.jobs[jobId] EXCEPT !.progress = progress] IN
         [m EXCEPT !.jobs[jobId] = updatedJob,
                   !.events = Emit(@, "job_updated", updatedJob)]
    ELSE m

\* The onProgress callback runExtractionInBackground passes.
OnProgress(m, progress) == updateJobProgress(m, m.run.job.id, progress)

\* startExport up to the first await of extractPolicyData: the job is stored,
\* job_started is emitted, policyData is initialised, onProgress(5).
startExport(jobs, events, jobId, policyId) ==
    LET job == ExportJob(jobId, policyId)
        m == Service(Append(jobs, job),
                     Append(events, <<[type |-> "job_started", job |-> job]>>),
                     [NoExtraction EXCEPT !.pc = "header", !.job = job])
    IN OnProgress(m, Percent(5))

\* A header query returned.
HeaderReturns(m, response) ==
    LET i == m.run.i
        field == HeaderFields[i + 1].field
        m1 == [m EXCEPT !.run.policyData.headerInfo[field] = response]
        m2 == OnProgress(m1, Percent(10 + (i * 5)))
    IN IF i + 1 < Len(HeaderFields)
       THEN [m2 EXCEPT !.run.i = i + 1]
       ELSE [m2 EXCEPT !.run.pc = "sections", !.run.i = 0]

\* const progressPerSection = allSections.length ? (40 / allSections.length) : 0
progressPerSection(allSections) ==
    IF Len(allSections) # 0 THEN Percent(40) \div Len(allSections) ELSE 0

\* Math.min(65 + (i * progressPerSection), 95)
JobSectionProgress(i, allSections) ==
    Min(Percent(65) + (i * progressPerSection(allSections)), Percent(95))

\* The head of the section loop: the fields query of section i, or
\* onProgress(98) and the return of policyData.
EnterSection(m) ==
    IF m.run.i < Len(m.run.allSections)
    THEN [m EXCEPT !.run.pc = "fields"]
    ELSE [OnProgress(m, Percent(98)) EXCEPT !.run.pc = "returned"]

\* A section-group query returned.
SectionsReturns(m, response) ==
    LET i == m.run.i
        m1 == IF response # <<>> /\ response # NF
              THEN [m EXCEPT !.run.allSections =
                                 @ \o MapTrim(Split(response, ","))]
              ELSE m
        m2 == OnProgress(m1, Percent(45 + (i * 5)))
    IN IF i + 1 < SectionGroupPrompts
       THEN [m2 EXCEPT !.run.i = i + 1]
       ELSE EnterSection([m2 EXCEPT !.run.i = 0])

\* The end of the body of the section loop.
AfterSection(m) ==
    LET m1 == OnProgress(m, JobSectionProgress(m.run.i, m.run.allSections)) IN
    EnterSection([m1 EXCEPT !.run.i = m.run.i + 1])

\* The fields query of section i returned.
FieldsReturns(m, response) ==
    IF response # <<>> /\ response # NF
    THEN [m EXCEPT !.run.fields = MapTrim(Split(response, ",")),
                   !.run.policyData.sections =
                       SetSection(@, m.run.allSections[m.run.i + 1]),
                   !.run.k = 0,
                   !.run.pc = "value"]
    ELSE AfterSection(m)

\* The value query of field k of section i returned. valueResponse.split('|')
\* of a text without '|' leaves page undefined and page.trim() throws.
ValueReturns(m, response) ==
    LET section == m.run.allSections[m.run.i + 1]
        field == m.run.fields[m.run.k + 1]
        parts == Split(response, "|")
        pushed == [m EXCEPT !.run.policyData.sections =
                      PushField(@, section,
                                FieldValue(field, Trim(parts[1]), Trim(parts[2])))]
        m1 == IF response # <<>> /\ response # NF THEN pushed ELSE m
    IN IF response # <<>> /\ response # NF /\ Len(parts) < 2
       THEN [m EXCEPT !.run.pc = "threw"]
       ELSE IF m.run.k + 1 < Len(m.run.fields)
            THEN [m1 EXCEPT !.run.k = m.run.k + 1]
            ELSE AfterSection(m1)

\* The catch block of runExtractionInBackground that spreads the record
\* activeJobs holds.
FailedJobFromRecord(job, current) ==
    [current EXCEPT !.status = "failed", !.error = "TypeError"]

\* The catch block of runExtractionInBackground: { ...job, status: 'failed',
\* error } over the job object the closure holds.
FailedJob(job, current) ==
    [job EXCEPT !.status = "failed", !.error = "TypeError"]

\* { ...job, status: 'completed', progress: 100, result: policyData }
CompletedJob(job, policyData) ==
    [job EXCEPT !.status = "completed", !.progress = Percent(100),
                !.hasResult = TRUE, !.result = policyData]

\* runExtractionInBackground after its await: the terminal record is stored
\* and its event emitted.
Settle(m) ==
    LET job == m.run.job
        updatedJob == IF m.run.pc = "returned"
                      THEN CompletedJob(job, m.run.policyData)
                      ELSE FailedJob(job, m.jobs[job.id])
        type == IF m.run.pc = "returned" THEN "job_completed" ELSE "job_failed"
    IN [m EXCEPT !.jobs[job.id] = updatedJob,
                 !.events = Emit(@, type, updatedJob),
                 !.run = [NoExtraction EXCEPT !.pc = "done", !.job = job]]

\* What the backend answers to the queries of a job.
JobHeaderOutcomes == {OkReply(<<"h">>)}
JobSectionsOutcomes ==
    {FetchFailure, OkNoContent, OkReply(<<"A">>), OkReply(<<"A", ",", " ", "B">>)}
JobFieldsOutcomes == {StatusError, OkReply(<<"f">>)}
JobValueOutcomes == {OkReply(NF), OkReply(<<"v", "|", "1">>), OkReply(<<"v">>)}

JobPolicyIds == {"p1"}

\* ------------------------------------------------------------------------
\* Two controls calling extractPolicyDataProgressively over the shared cache
\* ------------------------------------------------------------------------

Controls == {1, 2}
RaceIds == {"pA", "pB"}

\* The policyId prop a control can have: the first shows policy A, the second
\* policy A or policy B.
RaceIdsOf(c) == IF c = 1 THEN {"pA"} ELSE RaceIds

\* The policy id as it shows in the backend's answers about that policy.
IdChars(policyId) == IF policyId = "pA" THEN <<"A">> ELSE <<"B">>

\* A cache with one slot for every policy.
CacheKeyConstant(policyId) == "pA"

\* policyDataCache[policyId]: the key of the entry of a policy.
CacheKey(policyId) == policyId

\* A cache that keeps the first record stored for a policy.
CacheWriteOnce(cache, policyId, entry) ==
    IF cache[CacheKey(policyId)].present THEN cache
    ELSE [cache EXCEPT ![CacheKey(policyId)] = entry]

\* policyDataCache[policyId] = policyData
CacheWrite(cache, policyId, entry) == [cache EXCEPT ![CacheKey(policyId)] = entry]

\* The backend's answers about a policy to the prompt an invocation awaits.
RaceReply(run) ==
    IF run.pc = "header" THEN HeaderReply(run.i) \o IdChars(run.policyId)
    ELSE IF run.pc = "sections" THEN <<"P">> \o IdChars(run.policyId)
    ELSE IF run.pc = "fields" THEN <<"f">>
    ELSE <<"v">> \o IdChars(run.policyId) \o <<"|", "1">>

\* What queryRAGWithRetry can return to the awaited query: the answer; or,
\* but for the header queries after the first, 'NF' after failed attempts.
RaceResultsFor(run) ==
    IF run.pc = "header" /\ run.i > 0
    THEN {queryRAGWithRetry([k \in 1..OracleLen |-> OkReply(RaceReply(run))])}
    ELSE {queryRAGWithRetry(outs) : outs \in QueryOracles({RaceReply(run)})}

\* The step the awaited query of run belongs to.
RaceStep(run, res) ==
    IF run.pc = "header" THEN HeaderStep(run, res)
    ELSE IF run.pc = "sections" THEN SectionsStep(run, res)
    ELSE IF run.pc = "fields" THEN FieldsStep(run, res)
    ELSE ValueStep(run, res)

\* ------------------------------------------------------------------------
\* State
\* ------------------------------------------------------------------------

VARIABLES
    qcall,      \* the call of a query function made in this run, with its completion
    relations,  \* the relations prop handed to GraphVisualization
    graph,      \* the parser applied to relations and the { nodes, edges } it returned
    doubled,    \* the parser applied to relations followed by relations again, and its result
    answers,          \* Chat: the transcript of [user, response] pairs
    streamedAnswers,  \* Chat: the transcript shown while a response streams
    isLoading,        \* Chat: isLoading
    isStreaming,      \* Chat: isStreaming
    chatError,        \* Chat: error ("none" when undefined)
    req,              \* Chat: the makeApiRequest / handleAsyncRequest invocation
    wire,             \* bytes of the response body not yet read
    backendOpen,      \* the response body is still open
    runningText,      \* NDJSON reader: text of the line read so far
    pending,          \* NDJSON reader: events parsed from the last chunk, not yet yielded
    sent,             \* history: the events the backend emitted for this question
    log,              \* history: the events the for-await loop has handled
    splitSeen,        \* history: some chunk ended inside a line
    emitted,          \* number of events emitted in this run
    asked,            \* number of questions submitted in this run
    policyDataCache,  \* Excel: the module-level cache, by entity id
    mounted,          \* Excel: the control is mounted
    isExporting,      \* Excel: isExporting
    exportError,      \* Excel: error ("null" when null)
    progress,         \* Excel: progress
    exportInProgress, \* Excel: exportInProgress.current
    partialData,      \* Excel: partialData
    displayRows,      \* Excel: displayRows
    runs,             \* Excel: the invocations of the extractor in flight
    lastRun,          \* history: the invocation that ended last, until the next starts
    returned,         \* history: the record the extractor returned, by id, since the last cache clear
    clicks,           \* number of invocations of handleExport
    ignored,          \* number of invocations that returned at the guard
    extraction,       \* earlier revisions: the invocation of extractPolicyData
    plainRuns,        \* earlier revisions: number of invocations started
    review,       \* the invocation of extractPolicyData of the show-all revision
    reviewCache,  \* policyDataCache of the module of that revision
    reviewRuns,   \* its invocations so far
    racing,       \* two controls: the invocation of extractPolicyDataProgressively of each
    raceCache,    \* two controls: the policyDataCache they share
    answered,     \* history: what the queries of each control's invocation returned
    calls,        \* Chat: the invocations of makeApiRequest, by order of submission
    lastQuestion, \* Chat: lastQuestionRef.current
    clears,       \* number of invocations of clearChat
    listing,      \* the invocation of extractPolicyDataProgressively on a policy with repeated names
    activeJobs,   \* BackgroundExportService: activeJobs, by job id
    extractions,  \* BackgroundExportService: the runExtractionInBackground of each job
    jobEvents,    \* history: the events the service emitted, by the id of the job they carry
    gcall,        \* Chat, graph mode: the invocation of makeApiRequest / handleGraphStreamResponse
    gwire,        \* graph mode: the part of the response body not yet read
    gopen,        \* graph mode: the response body is still open
    gsent,        \* history: the events the backend wrote for this question
    gemitted,     \* number of events written in this run
    gasked,       \* number of questions sent in this run
    finished,     \* history: the controls in the order their invocations returned
    overlapped    \* history: an invocation took a step while the other was in flight

queryVars == <<qcall>>
graphVars == <<relations, graph, doubled>>
chatVars == <<answers, streamedAnswers, isLoading, isStreaming, chatError, req,
              wire, backendOpen, runningText, pending, sent, log, splitSeen,
              emitted, asked>>

excelVars == <<policyDataCache, mounted, isExporting, exportError, progress,
               exportInProgress, partialData, displayRows, runs, lastRun,
               returned, clicks, ignored>>

plainVars == <<extraction, plainRuns>>

reviewVars == <<review, reviewCache, reviewRuns>>

raceVars == <<racing, raceCache, answered, finished, overlapped>>

\* The Chat page's state that the reader of the response body keeps.
chatReaderVars == <<req, wire, backendOpen, runningText, pending, sent, log,
                    splitSeen, emitted, asked>>

talkVars == <<calls, lastQuestion, clears>>

rowsVars == <<listing>>

jobsVars == <<activeJobs, extractions, jobEvents>>

graphStreamVars == <<gcall, gwire, gopen, gsent, gemitted, gasked>>

vars == <<talkVars, jobsVars, rowsVars, graphStreamVars, qcall, relations, graph, doubled, answers, streamedAnswers, isLoading,
          isStreaming, chatError, req, wire, backendOpen, runningText, pending,
          sent, log, splitSeen, emitted, asked, policyDataCache, mounted,
          isExporting, exportError, progress, exportInProgress, partialData,
          displayRows, runs, lastRun, returned, clicks, ignored, extraction,
          plainRuns, review, reviewCache, reviewRuns, racing, raceCache,
          answered, finished, overlapped>>

\* ------------------------------------------------------------------------
\* Query functions applied to network outcomes
\* ------------------------------------------------------------------------

NoCall == [fn |-> "none", outs |-> <<>>, threw |-> FALSE, value |-> <<>>, calls |-> 0]

QueryInit == qcall = NoCall

CallQueryRAG(o) ==
    LET r == queryRAG(o) IN
    /\ qcall = NoCall
    /\ qcall' = [fn |-> "queryRAG", outs |-> <<o>>, threw |-> r.threw,
              value |-> r.value, calls |-> 1]

CallQueryChatAPI(o) ==
    LET r == queryChatAPI(o) IN
    /\ qcall = NoCall
    /\ qcall' = [fn |-> "queryChatAPI", outs |-> <<o>>, threw |-> r.threw,
              value |-> r.value, calls |-> 1]

CallQueryRAGWithRetry(outs) ==
    LET r == queryRAGWithRetry(outs) IN
    /\ qcall = NoCall
    /\ qcall' = [fn |-> "queryRAGWithRetry", outs |-> outs, threw |-> r.threw,
              value |-> r.value, calls |-> r.calls]

CallQueryWithRetry(outs) ==
    LET r == queryWithRetry(outs) IN
    /\ qcall = NoCall
    /\ qcall' = [fn |-> "queryWithRetry", outs |-> outs, threw |-> r.threw,
              value |-> r.value, calls |-> r.calls]

QueryNext ==
    \/ \E o \in Outcomes : CallQueryRAG(o)
    \/ \E o \in Outcomes : CallQueryChatAPI(o)
    \/ \E outs \in Oracles : CallQueryRAGWithRetry(outs)
    \/ \E outs \in Oracles : CallQueryWithRetry(outs)

\* ------------------------------------------------------------------------
\* parseGraph applied to relation lists
\* ------------------------------------------------------------------------

NoGraph == [parser |-> "none", nodes |-> <<>>, edges |-> <<>>]

GraphInit ==
    /\ relations = <<>>
    /\ graph = NoGraph
    /\ doubled = NoGraph

\* The backend reports one more relation string.
AddRelation(r) ==
    /\ graph.parser = "none"
    /\ Len(relations) < MaxRelations
    /\ doubled.parser = "none"
    /\ relations' = Append(relations, r)
    /\ UNCHANGED <<graph, doubled>>

\* GraphVisualization (first revision) parses its relations prop.
ParseGraph ==
    /\ graph.parser = "none"
    /\ graph' = [parser |-> "parseGraph"] @@ parseGraph(relations)
    /\ UNCHANGED <<relations, doubled>>

\* GraphVisualization (second revision) parses its relations prop.
ParseGraphRev2 ==
    /\ graph.parser = "none"
    /\ graph' = [parser |-> "parseGraphRev2"] @@ parseGraphRev2(relations)
    /\ UNCHANGED <<relations, doubled>>

\* GraphVisualization (first revision) is given every relation a second time:
\* its relations prop is the list followed by the list again.
ParseGraphDoubled ==
    /\ doubled.parser = "none"
    /\ doubled' = [parser |-> "parseGraph"] @@ parseGraph(relations \o relations)
    /\ UNCHANGED <<relations, graph>>

\* The same for the second revision.
ParseGraphRev2Doubled ==
    /\ doubled.parser = "none"
    /\ doubled' = [parser |-> "parseGraphRev2"] @@ parseGraphRev2(relations \o relations)
    /\ UNCHANGED <<relations, graph>>

GraphNext ==
    \/ \E r \in RelationStrings : AddRelation(r)
    \/ ParseGraph
    \/ ParseGraphRev2
    \/ ParseGraphDoubled
    \/ ParseGraphRev2Doubled

\* ------------------------------------------------------------------------
\* Chat page: makeApiRequest and handleAsyncRequest (streaming, non-graph)
\* ------------------------------------------------------------------------

NoRequest ==
    [pc |-> "idle", question |-> "", answers |-> <<>>, answer |-> <<>>,
     askResponse |-> EmptyResponse, newContent |-> <<>>, outcome |-> "none"]

ChatInit ==
    /\ answers = <<>>
    /\ streamedAnswers = <<>>
    /\ isLoading = FALSE
    /\ isStreaming = FALSE
    /\ chatError = "none"
    /\ req = NoRequest
    /\ wire = <<>>
    /\ backendOpen = FALSE
    /\ runningText = <<>>
    /\ pending = <<>>
    /\ sent = <<>>
    /\ log = <<>>
    /\ splitSeen = FALSE
    /\ emitted = 0
    /\ asked = 0

\* makeApiRequest up to the await of chatApi: the error is cleared, isLoading
\* is set, and the call closes over the current answers.
MakeApiRequest(question) ==
    /\ req.pc = "idle"
    /\ asked < MaxQuestions
    /\ asked' = asked + 1
    /\ chatError' = "none"
    /\ isLoading' = TRUE
    /\ req' = [NoRequest EXCEPT !.pc = "calling", !.question = question,
                                !.answers = answers]
    /\ sent' = <<>>
    /\ log' = <<>>
    /\ splitSeen' = FALSE
    /\ UNCHANGED <<answers, streamedAnswers, isStreaming, wire, backendOpen,
                   runningText, pending, emitted>>

\* chatApi resolves with a response body; handleAsyncRequest starts and sets
\* isStreaming.
ApiResponds ==
    /\ req.pc = "calling"
    /\ req' = [req EXCEPT !.pc = "reading"]
    /\ isStreaming' = TRUE
    /\ backendOpen' = TRUE
    /\ wire' = <<>>
    /\ runningText' = <<>>
    /\ pending' = <<>>
    /\ UNCHANGED <<answers, streamedAnswers, isLoading, chatError, sent, log,
                   splitSeen, emitted, asked>>

\* The catch and finally blocks of makeApiRequest: the error is recorded and
\* isLoading is reset; answers is not touched.
CatchAndFinally ==
    /\ chatError' = "error"
    /\ isLoading' = FALSE
    /\ req' = [req EXCEPT !.pc = "idle", !.outcome = "threw"]
    /\ backendOpen' = FALSE
    /\ wire' = <<>>
    /\ runningText' = <<>>
    /\ pending' = <<>>
    /\ UNCHANGED <<answers, streamedAnswers>>

\* chatApi rejects, or the response has no body.
ApiFails ==
    /\ req.pc = "calling"
    /\ CatchAndFinally
    /\ UNCHANGED <<isStreaming, sent, log, splitSeen, emitted, asked>>

\* The backend writes one more event line to the response body.
BackendEmit(i) ==
    /\ backendOpen
    /\ emitted < MaxEvents
    /\ emitted' = emitted + 1
    /\ wire' = wire \o EncodeLine(i)
    /\ sent' = Append(sent, i)
    /\ UNCHANGED <<answers, streamedAnswers, isLoading, isStreaming, chatError,
                   req, backendOpen, runningText, pending, log, splitSeen, asked>>

\* The backend ends the response body.
BackendClose ==
    /\ backendOpen
    /\ backendOpen' = FALSE
    /\ UNCHANGED <<answers, streamedAnswers, isLoading, isStreaming, chatError,
                   req, wire, runningText, pending, sent, log, splitSeen,
                   emitted, asked>>

\* The reader gets the next chunk: the first n bytes of what is on the wire.
ReadChunk(n) ==
    /\ req.pc = "reading"
    /\ pending = <<>>
    /\ n \in 1..Len(wire)
    /\ LET r == ReadChunkInto(SubSeq(wire, 1, n), runningText) IN
       /\ runningText' = r.runningText
       /\ pending' = r.events
       /\ splitSeen' = (splitSeen \/ r.runningText # <<>>)
    /\ wire' = SubSeq(wire, n + 1, Len(wire))
    /\ UNCHANGED <<answers, streamedAnswers, isLoading, isStreaming, chatError,
                   req, backendOpen, sent, log, emitted, asked>>

\* One iteration of the for-await loop on the next yielded event.
HandleEvent ==
    /\ req.pc = "reading"
    /\ pending # <<>>
    /\ LET e == EventTable[Head(pending)]
           branch == EventBranch(e)
       IN
       /\ log' = Append(log, Head(pending))
       /\ IF branch = "error"
          THEN \* throw Error(event["error"]); finally setIsStreaming(false)
               /\ isStreaming' = FALSE
               /\ CatchAndFinally
          ELSE /\ pending' = Tail(pending)
               /\ req' = IF branch = "frame"
                         THEN [req EXCEPT !.askResponse = ResponseFromFrame(e)]
                         ELSE IF branch = "delta"
                         THEN [req EXCEPT !.pc = "timer", !.newContent = e.content]
                         ELSE IF branch = "context"
                         THEN [req EXCEPT !.askResponse.context =
                                              MergeContext(req.askResponse.context, e.context)]
                         ELSE req
               /\ isLoading' = IF branch = "delta" THEN FALSE ELSE isLoading
               /\ UNCHANGED <<answers, streamedAnswers, isStreaming, chatError,
                              wire, backendOpen, runningText>>
    /\ UNCHANGED <<sent, splitSeen, emitted, asked>>

\* The timer of updateState fires: the fragment is appended and the partial
\* response is published. Without a message in askResponse the callback throws
\* after the append, the promise never resolves and the loop never resumes.
UpdateStateTimer ==
    /\ req.pc = "timer"
    /\ LET answer == AppendContent(req.answer, req.newContent) IN
       IF req.askResponse.hasMessage
       THEN /\ req' = [req EXCEPT !.pc = "reading", !.answer = answer]
            /\ streamedAnswers' =
                   Append(req.answers,
                          AnswerPair(req.question, answer, req.askResponse.context))
       ELSE /\ req' = [req EXCEPT !.pc = "hung", !.answer = answer]
            /\ UNCHANGED streamedAnswers
    /\ UNCHANGED <<answers, isLoading, isStreaming, chatError, wire, backendOpen,
                   runningText, pending, sent, log, splitSeen, emitted, asked>>

\* The stream is done: isStreaming is reset and the full response is built;
\* makeApiRequest appends the pair to the answers it closed over. Without a
\* message in askResponse building the response throws.
StreamEnd ==
    /\ req.pc = "reading"
    /\ pending = <<>>
    /\ wire = <<>>
    /\ ~backendOpen
    /\ isStreaming' = FALSE
    /\ IF req.askResponse.hasMessage
       THEN /\ answers' = Append(req.answers,
                                 AnswerPair(req.question, req.answer,
                                            req.askResponse.context))
            /\ isLoading' = FALSE
            /\ req' = [req EXCEPT !.pc = "idle", !.outcome = "returned"]
            /\ runningText' = <<>>
            /\ UNCHANGED <<streamedAnswers, chatError, wire, backendOpen, pending>>
       ELSE CatchAndFinally
    /\ UNCHANGED <<sent, log, splitSeen, emitted, asked>>

\* Reading the response body fails (the connection breaks).
StreamFails ==
    /\ req.pc = "reading"
    /\ pending = <<>>
    /\ backendOpen
    /\ isStreaming' = FALSE
    /\ CatchAndFinally
    /\ UNCHANGED <<sent, log, splitSeen, emitted, asked>>

ChatNext ==
    \/ \E q \in Questions : MakeApiRequest(q)
    \/ ApiResponds
    \/ ApiFails
    \/ \E i \in EventIds : BackendEmit(i)
    \/ BackendClose
    \/ \E n \in 1..(3 * MaxEvents) : ReadChunk(n)
    \/ HandleEvent
    \/ UpdateStateTimer
    \/ StreamEnd
    \/ StreamFails

\* ------------------------------------------------------------------------
\* ExportToExcelButton: handleExport, the extraction steps, the cache button
\* ------------------------------------------------------------------------

ExcelInit ==
    /\ policyDataCache = [id \in PolicyIds |-> NoRecord]
    /\ mounted = TRUE
    /\ isExporting = FALSE
    /\ exportError = "null"
    /\ progress = 0
    /\ exportInProgress = FALSE
    /\ partialData = EmptyPolicyData
    /\ displayRows = <<>>
    /\ runs = <<>>
    /\ lastRun = NoRun
    /\ returned = [id \in PolicyIds |-> NoRecord]
    /\ clicks = 0
    /\ ignored = 0

RemoveAt(seq, k) == SubSeq(seq, 1, k - 1) \o SubSeq(seq, k + 1, Len(seq))

\* What a run that went from before to after makes of the control and the
\* cache: the callbacks set progress, partialData and displayRows (state
\* updates of an unmounted control are dropped); a run that is done has
\* stored its record, and handleExport resumes after its await and resets
\* isExporting and exportInProgress.
RunEffects(before, after) ==
    /\ progress' = IF mounted /\ after.progressLog # before.progressLog
                   THEN after.progressLog[Len(after.progressLog)] ELSE progress
    /\ partialData' = IF mounted /\ after.snapshotCount # before.snapshotCount
                      THEN after.lastSnapshot ELSE partialData
    /\ displayRows' = IF mounted /\ after.snapshotCount # before.snapshotCount
                      THEN after.lastRows ELSE displayRows
    /\ isExporting' = IF mounted /\ after.pc = "done" THEN FALSE ELSE isExporting
    /\ exportInProgress' = IF after.pc = "done" THEN FALSE ELSE exportInProgress
    /\ policyDataCache' = IF after.pc = "done"
                          THEN [policyDataCache EXCEPT ![after.policyId] = after.result]
                          ELSE policyDataCache
    /\ returned' = IF after.pc = "done"
                   THEN [returned EXCEPT ![after.policyId] = after.result]
                   ELSE returned
    /\ lastRun' = IF after.pc = "done" THEN after ELSE lastRun

\* handleExport up to its await: the guard, the resets, and the synchronous
\* part of extractPolicyDataProgressively. On a cache hit the extractor has
\* already returned and handleExport resumes before any other event.
HandleExport ==
    /\ mounted
    /\ clicks < MaxClicks
    /\ clicks' = clicks + 1
    /\ IF ExportGuard(exportInProgress)
       THEN /\ ignored' = ignored + 1
            /\ UNCHANGED <<policyDataCache, isExporting, exportError, progress,
                           exportInProgress, partialData, displayRows, runs,
                           lastRun, returned>>
       ELSE LET run == Suspend(StartExtraction(ControlPolicyId, policyDataCache[ControlPolicyId])) IN
            /\ exportError' = "null"
            /\ progress' = run.progressLog[Len(run.progressLog)]
            /\ partialData' = IF run.snapshotCount > 0 THEN run.lastSnapshot
                              ELSE EmptyPolicyData
            /\ displayRows' = IF run.snapshotCount > 0 THEN run.lastRows ELSE <<>>
            /\ isExporting' = (run.pc # "done")
            /\ exportInProgress' = (run.pc # "done")
            /\ runs' = IF run.pc = "done" THEN runs ELSE Append(runs, run)
            /\ lastRun' = IF run.pc = "done" THEN run ELSE NoRun
            /\ UNCHANGED <<policyDataCache, returned, ignored>>
    /\ UNCHANGED mounted

\* The awaited header query of run k returns.
HeaderQuery(k, res) ==
    /\ k \in 1..Len(runs)
    /\ runs[k].pc = "header"
    /\ res \in HeaderResultsFor(runs[k].i)
    /\ LET after == Suspend(HeaderStep(Resume(runs[k]), res)) IN
       /\ runs' = [runs EXCEPT ![k] = after]
       /\ RunEffects(runs[k], after)
    /\ UNCHANGED <<mounted, exportError, clicks, ignored>>

\* The awaited sections query of run k returns.
SectionsQuery(k, res) ==
    /\ k \in 1..Len(runs)
    /\ runs[k].pc = "sections"
    /\ LET after == Suspend(SectionsStep(Resume(runs[k]), res)) IN
       /\ runs' = IF after.pc = "done" THEN RemoveAt(runs, k)
                  ELSE [runs EXCEPT ![k] = after]
       /\ RunEffects(runs[k], after)
    /\ UNCHANGED <<mounted, exportError, clicks, ignored>>

\* The awaited fields query of run k returns.
FieldsQuery(k, res) ==
    /\ k \in 1..Len(runs)
    /\ runs[k].pc = "fields"
    /\ LET after == Suspend(FieldsStep(Resume(runs[k]), res)) IN
       /\ runs' = IF after.pc = "done" THEN RemoveAt(runs, k)
                  ELSE [runs EXCEPT ![k] = after]
       /\ RunEffects(runs[k], after)
    /\ UNCHANGED <<mounted, exportError, clicks, ignored>>

\* The awaited value query of run k returns.
ValueQuery(k, res) ==
    /\ k \in 1..Len(runs)
    /\ runs[k].pc = "value"
    /\ res \in ValueResultsFor(FieldAt(runs[k].fields, runs[k].j))
    /\ LET after == Suspend(ValueStep(Resume(runs[k]), res)) IN
       /\ runs' = IF after.pc = "done" THEN RemoveAt(runs, k)
                  ELSE [runs EXCEPT ![k] = after]
       /\ RunEffects(runs[k], after)
    /\ UNCHANGED <<mounted, exportError, clicks, ignored>>

\* The Clear Cache button: delete policyDataCache[policyId].
ClearCache ==
    /\ mounted
    /\ policyDataCache' = [policyDataCache EXCEPT ![ControlPolicyId] = NoRecord]
    /\ returned' = [returned EXCEPT ![ControlPolicyId] = NoRecord]
    /\ UNCHANGED <<mounted, isExporting, exportError, progress, exportInProgress,
                   partialData, displayRows, runs, lastRun, clicks, ignored>>

\* The control is unmounted: the cleanup of its effect resets the flag and the
\* component state is discarded. A run in flight goes on.
Unmount ==
    /\ mounted
    /\ mounted' = FALSE
    /\ exportInProgress' = FALSE
    /\ isExporting' = FALSE
    /\ exportError' = "null"
    /\ progress' = 0
    /\ partialData' = EmptyPolicyData
    /\ displayRows' = <<>>
    /\ UNCHANGED <<policyDataCache, runs, lastRun, returned, clicks, ignored>>

ExcelNext ==
    \/ HandleExport
    \/ \E k \in 1..MaxClicks, res \in HeaderResults : HeaderQuery(k, res)
    \/ \E k \in 1..MaxClicks, res \in SectionsResults : SectionsQuery(k, res)
    \/ \E k \in 1..MaxClicks, res \in FieldsResults : FieldsQuery(k, res)
    \/ \E k \in 1..MaxClicks, res \in ValueResults : ValueQuery(k, res)
    \/ ClearCache
    \/ Unmount

\* ------------------------------------------------------------------------
\* The earlier revisions of the extractor, one awaited query per step
\* ------------------------------------------------------------------------

PlainInit ==
    /\ extraction = NoPlainRun
    /\ plainRuns = 0

\* extractPolicyData is called: the record is initialised, the service
\* reports 5, and the first header query is issued.
StartExtractPolicyData(rev) ==
    /\ extraction.pc \in {"idle", "done", "threw"}
    /\ plainRuns < MaxPlainRuns
    /\ plainRuns' = plainRuns + 1
    /\ extraction' = PlainProgress(PlainRun(rev), Fraction(5, 1))

PlainHeaderQuery(response) ==
    /\ extraction.pc = "header"
    /\ extraction' = PlainHeaderStep(extraction, response)
    /\ UNCHANGED plainRuns

PlainGroupQuery(response) ==
    /\ extraction.pc = "groups"
    /\ response \in PlainResults(PlainGroupRepliesFor(extraction.i))
    /\ extraction' = [PlainGroupStep(extraction, response)
                         EXCEPT !.groupResponses = Append(@, response)]
    /\ UNCHANGED plainRuns

PlainFieldsQuery(response) ==
    /\ extraction.pc = "fields"
    /\ extraction' = PlainFieldsStep(extraction, response)
    /\ UNCHANGED plainRuns

PlainValueQuery(response) ==
    /\ extraction.pc = "value"
    /\ extraction' = PlainValueStep(extraction, response)
    /\ UNCHANGED plainRuns

PlainNext ==
    \/ \E rev \in {"background", "first", "service"} : StartExtractPolicyData(rev)
    \/ \E response \in PlainResults(PlainHeaderReplies) : PlainHeaderQuery(response)
    \/ \E response \in PlainResults(PlainGroupReplies) : PlainGroupQuery(response)
    \/ \E response \in PlainResults(PlainFieldsReplies) : PlainFieldsQuery(response)
    \/ \E response \in PlainResults(PlainValueReplies) : PlainValueQuery(response)

\* ------------------------------------------------------------------------
\* The show-all revision of the extractor, one awaited query per step
\* ------------------------------------------------------------------------

ReviewInit ==
    /\ review = NoReviewRun
    /\ reviewCache = [id \in PolicyIds |-> NoRecord]
    /\ reviewRuns = 0

\* A run that went from review to after: when it is done without a cache
\* hit, it has stored its record.
ReviewEffects(after) ==
    /\ review' = after
    /\ reviewCache' = IF after.pc = "done" /\ ~after.cachedAtStart
                      THEN [reviewCache EXCEPT ![ControlPolicyId] = CachedRecord(after.policyData)]
                      ELSE reviewCache
    /\ UNCHANGED reviewRuns

\* extractPolicyData(policyId, setProgress, onPartialResults, showAllResponses)
\* is called, up to its first await.
ReviewStart(showAllResponses) ==
    /\ review.pc \in {"idle", "done", "projected"}
    /\ reviewRuns < MaxReviewRuns
    /\ reviewRuns' = reviewRuns + 1
    /\ review' = ReviewStartExtraction(reviewCache[ControlPolicyId], showAllResponses)
    /\ UNCHANGED reviewCache

ReviewHeaderQuery(result) ==
    /\ review.pc = "header"
    /\ result \in ReviewHeaderResultsFor(review.i)
    /\ ReviewEffects(ReviewHeaderStep(review, result))

ReviewSectionsQuery(res) ==
    /\ review.pc = "sections"
    /\ ReviewEffects(ReviewSectionsStep(review, res))

ReviewFieldsQuery(res) ==
    /\ review.pc = "fields"
    /\ ReviewEffects(ReviewFieldsStep(review, res))

ReviewValueQuery(valueResponse) ==
    /\ review.pc = "value"
    /\ ReviewEffects(ReviewValueStep(review, valueResponse))

\* The record an invocation returned is projected: by the current control's
\* convertToDisplayRows and transformToExcelFormat, and by this revision's
\* transformToExcelFormat with includeEmpty as the toggle stands.
ReviewProject ==
    /\ review.pc = "done"
    /\ review' = [review EXCEPT
                     !.pc = "projected",
                     !.displayed = convertToDisplayRows(review.policyData, <<>>),
                     !.sheet = transformToExcelFormat(review.policyData),
                     !.sheetInclude = transformToExcelFormatInclude(review.policyData,
                                                                    review.showAllResponses)]
    /\ UNCHANGED <<reviewCache, reviewRuns>>

ReviewNext ==
    \/ \E showAllResponses \in BOOLEAN : ReviewStart(showAllResponses)
    \/ \E result \in ReviewHeaderResults : ReviewHeaderQuery(result)
    \/ \E res \in ReviewSectionsResults : ReviewSectionsQuery(res)
    \/ \E res \in ReviewFieldsResults : ReviewFieldsQuery(res)
    \/ \E valueResponse \in ReviewValueResults : ReviewValueQuery(valueResponse)
    \/ ReviewProject

\* ------------------------------------------------------------------------
\* Two controls over the shared cache, one awaited query per step
\* ------------------------------------------------------------------------

RaceInit ==
    /\ racing = [c \in Controls |-> NoRun]
    /\ raceCache = [id \in RaceIds |-> NoRecord]
    /\ answered = [c \in Controls |-> <<>>]
    /\ finished = <<>>
    /\ overlapped = FALSE

InFlight(run) == run.pc \notin {"none", "done"}

\* Control c calls extractPolicyDataProgressively(policyId, ...): the cache
\* check, and on a miss the start up to the first await.
RaceStart(c, policyId) ==
    /\ racing[c].pc = "none"
    /\ policyId \in RaceIdsOf(c)
    /\ LET run == Suspend(StartExtraction(policyId, raceCache[CacheKey(policyId)])) IN
       /\ racing' = [racing EXCEPT ![c] = run]
       /\ finished' = IF run.pc = "done" THEN Append(finished, c) ELSE finished
    /\ UNCHANGED <<raceCache, answered, overlapped>>

\* The awaited query of control c's invocation returns res: the invocation
\* runs to its next await, or to its end, where it stores its record.
RaceResolve(c, res) ==
    /\ res \in RaceResultsFor(racing[c])
    /\ LET after == Suspend(RaceStep(Resume(racing[c]), res)) IN
       /\ racing' = [racing EXCEPT ![c] = after]
       /\ raceCache' = IF after.pc = "done"
                        THEN CacheWrite(raceCache, after.policyId, after.result)
                        ELSE raceCache
       /\ finished' = IF after.pc = "done" THEN Append(finished, c) ELSE finished
    /\ answered' = [answered EXCEPT ![c] = Append(@, res)]
    /\ overlapped' = (overlapped \/ \E d \in Controls \ {c} : InFlight(racing[d]))

RaceHeaderQuery(c, res) ==
    /\ racing[c].pc = "header"
    /\ RaceResolve(c, res)

RaceSectionsQuery(c, res) ==
    /\ racing[c].pc = "sections"
    /\ RaceResolve(c, res)

RaceFieldsQuery(c, res) ==
    /\ racing[c].pc = "fields"
    /\ RaceResolve(c, res)

RaceValueQuery(c, res) ==
    /\ racing[c].pc = "value"
    /\ RaceResolve(c, res)

RaceNext ==
    \/ \E c \in Controls, policyId \in RaceIds : RaceStart(c, policyId)
    \/ \E c \in Controls : \E res \in RaceResultsFor(racing[c]) : RaceHeaderQuery(c, res)
    \/ \E c \in Controls : \E res \in RaceResultsFor(racing[c]) : RaceSectionsQuery(c, res)
    \/ \E c \in Controls : \E res \in RaceResultsFor(racing[c]) : RaceFieldsQuery(c, res)
    \/ \E c \in Controls : \E res \in RaceResultsFor(racing[c]) : RaceValueQuery(c, res)

\* ------------------------------------------------------------------------
\* extractPolicyDataProgressively on a policy with repeated names
\* ------------------------------------------------------------------------

RowsInit == listing = NoRun

\* The control calls extractPolicyDataProgressively with an empty cache.
RowsStart ==
    /\ listing.pc = "none"
    /\ listing' = Suspend(StartExtraction(ControlPolicyId, NoRecord))

\* The awaited query returns res and the invocation runs to its next await,
\* or to its end.
RowsResolve(res) ==
    /\ res \in RowsResultsFor(listing)
    /\ listing' = Suspend(RaceStep(Resume(listing), res))

RowsHeaderQuery(res) ==
    /\ listing.pc = "header"
    /\ RowsResolve(res)

RowsSectionsQuery(res) ==
    /\ listing.pc = "sections"
    /\ RowsResolve(res)

RowsFieldsQuery(res) ==
    /\ listing.pc = "fields"
    /\ RowsResolve(res)

RowsValueQuery(res) ==
    /\ listing.pc = "value"
    /\ RowsResolve(res)

RowsNext ==
    \/ RowsStart
    \/ \E res \in RowsResultsFor(listing) : RowsHeaderQuery(res)
    \/ \E res \in RowsResultsFor(listing) : RowsSectionsQuery(res)
    \/ \E res \in RowsResultsFor(listing) : RowsFieldsQuery(res)
    \/ \E res \in RowsResultsFor(listing) : RowsValueQuery(res)

\* ------------------------------------------------------------------------
\* Chat page: overlapping invocations of makeApiRequest, and clearChat
\* ------------------------------------------------------------------------

TalkInit ==
    /\ calls = [c \in CallIds |-> NoTalk]
    /\ lastQuestion = ""
    /\ clears = 0

Settled(call) == call.pc \in {"returned", "threw"}

\* The question box (disabled={isLoading}) sends a question: makeApiRequest up
\* to the await of chatApi. The invocation closes over the answers and the
\* error of the current render.
TalkSend(c) ==
    /\ ~isLoading
    /\ calls[c].pc = "none"
    /\ \A b \in CallIds : b < c => calls[b].pc # "none"
    /\ lastQuestion' = TalkQuestion(c)
    /\ chatError' = "none"
    /\ isLoading' = TRUE
    /\ calls' = [calls EXCEPT ![c] = [NoTalk EXCEPT !.pc = "calling",
                                                    !.question = TalkQuestion(c),
                                                    !.answers = answers]]
    /\ UNCHANGED <<answers, streamedAnswers, isStreaming, clears>>

\* chatApi resolves with a response body; handleAsyncRequest starts.
TalkResponds(c) ==
    /\ calls[c].pc = "calling"
    /\ calls' = [calls EXCEPT ![c].pc = "reading"]
    /\ isStreaming' = TRUE
    /\ UNCHANGED <<answers, streamedAnswers, isLoading, chatError, lastQuestion, clears>>

\* An invocation whose failure is not caught.
TalkCatchAndFinallyNoReset(c, cause) ==
    /\ chatError' = "error"
    /\ calls' = [calls EXCEPT ![c].pc = "threw", ![c].cause = cause]
    /\ UNCHANGED <<answers, streamedAnswers, isLoading, lastQuestion, clears>>

\* catch (e) { setError(e) } finally { setIsLoading(false) } of makeApiRequest.
TalkCatchAndFinally(c, cause) ==
    /\ chatError' = "error"
    /\ isLoading' = FALSE
    /\ calls' = [calls EXCEPT ![c].pc = "threw", ![c].cause = cause]
    /\ UNCHANGED <<answers, streamedAnswers, lastQuestion, clears>>

\* chatApi rejects, or the response has no body.
TalkApiFails(c) ==
    /\ calls[c].pc = "calling"
    /\ TalkCatchAndFinally(c, "api")
    /\ UNCHANGED isStreaming

\* One iteration of the for-await loop of handleAsyncRequest on event e.
TalkEvent(c, i) ==
    /\ calls[c].pc = "reading"
    /\ calls[c].handled < MaxTalkEvents
    /\ LET e == EventTable[i]
           branch == EventBranch(e)
           call == [calls[c] EXCEPT !.handled = @ + 1]
       IN
       IF branch = "error"
       THEN \* throw Error(event["error"]); finally setIsStreaming(false)
            /\ isStreaming' = FALSE
            /\ TalkCatchAndFinally(c, "event")
       ELSE /\ calls' = [calls EXCEPT ![c] =
                            IF branch = "frame"
                            THEN [call EXCEPT !.askResponse = ResponseFromFrame(e)]
                            ELSE IF branch = "delta"
                            THEN [call EXCEPT !.pc = "timer", !.newContent = e.content]
                            ELSE IF branch = "context"
                            THEN [call EXCEPT !.askResponse.context =
                                                  MergeContext(call.askResponse.context, e.context)]
                            ELSE call]
            /\ isLoading' = IF branch = "delta" THEN FALSE ELSE isLoading
            /\ UNCHANGED <<answers, streamedAnswers, isStreaming, chatError,
                           lastQuestion, clears>>

\* The timer of updateState fires (see UpdateStateTimer).
TalkTimer(c) ==
    /\ calls[c].pc = "timer"
    /\ LET answer == AppendContent(calls[c].answer, calls[c].newContent) IN
       IF calls[c].askResponse.hasMessage
       THEN /\ calls' = [calls EXCEPT ![c].pc = "reading", ![c].answer = answer]
            /\ streamedAnswers' =
                   Append(calls[c].answers,
                          AnswerPair(calls[c].question, answer, calls[c].askResponse.context))
       ELSE /\ calls' = [calls EXCEPT ![c].pc = "hung", ![c].answer = answer]
            /\ UNCHANGED streamedAnswers
    /\ UNCHANGED <<answers, isLoading, isStreaming, chatError, lastQuestion, clears>>

\* The stream is done: finally setIsStreaming(false); the full response is
\* built and makeApiRequest sets answers to the answers it closed over plus
\* the new pair, then its finally block resets isLoading.
TalkStreamEnd(c) ==
    /\ calls[c].pc = "reading"
    /\ isStreaming' = FALSE
    /\ IF calls[c].askResponse.hasMessage
       THEN /\ answers' = SetAnswers(calls[c].answers, answers,
                                     AnswerPair(calls[c].question, calls[c].answer,
                                                calls[c].askResponse.context))
            /\ isLoading' = FALSE
            /\ calls' = [calls EXCEPT ![c].pc = "returned"]
            /\ UNCHANGED <<streamedAnswers, chatError, lastQuestion, clears>>
       ELSE TalkCatchAndFinally(c, "response")

\* Reading the response body fails, or a line of it does not parse.
TalkStreamFails(c) ==
    /\ calls[c].pc = "reading"
    /\ isStreaming' = FALSE
    /\ TalkCatchAndFinally(c, "stream")

\* The clear button (disabled={!lastQuestionRef.current || isLoading}).
ClearChat ==
    /\ lastQuestion # ""
    /\ ~isLoading
    /\ clears < MaxClears
    /\ clears' = clears + 1
    /\ lastQuestion' = ""
    /\ chatError' = "none"
    /\ answers' = <<>>
    /\ streamedAnswers' = <<>>
    /\ isLoading' = FALSE
    /\ isStreaming' = FALSE
    /\ UNCHANGED calls

TalkNext ==
    \/ \E c \in CallIds : TalkSend(c)
    \/ \E c \in CallIds : TalkResponds(c)
    \/ \E c \in CallIds : TalkApiFails(c)
    \/ \E c \in CallIds : \E i \in TalkEvents : TalkEvent(c, i)
    \/ \E c \in CallIds : TalkTimer(c)
    \/ \E c \in CallIds : TalkStreamEnd(c)
    \/ \E c \in CallIds : TalkStreamFails(c)
    \/ ClearChat

\* ------------------------------------------------------------------------
\* Chat page in graph retrieval mode with streaming
\* ------------------------------------------------------------------------

GraphStreamInit ==
    /\ gcall = NoGraphCall
    /\ gwire = <<>>
    /\ gopen = FALSE
    /\ gsent = <<>>
    /\ gemitted = 0
    /\ gasked = 0

\* makeApiRequest up to the await of graphRagApi.
GraphSend(question) ==
    /\ ~isLoading
    /\ gcall.pc \in {"idle", "returned", "threw"}
    /\ gasked < MaxGraphQuestions
    /\ gasked' = gasked + 1
    /\ chatError' = "none"
    /\ isLoading' = TRUE
    /\ gcall' = [NoGraphCall EXCEPT !.pc = "calling", !.question = question,
                                    !.before = answers]
    /\ gsent' = <<>>
    /\ UNCHANGED <<answers, gwire, gopen, gemitted>>

\* graphRagApi resolves with a body: handleGraphStreamResponse gets the
\* reader and appends the empty answer of the question.
GraphResponds ==
    /\ gcall.pc = "calling"
    /\ gcall' = [gcall EXCEPT !.pc = "reading"]
    /\ answers' = Append(answers, GraphAnswer(gcall.question, <<>>, <<>>, <<>>))
    /\ gopen' = TRUE
    /\ gwire' = <<>>
    /\ UNCHANGED <<isLoading, chatError, gsent, gemitted, gasked>>

\* catch (e) { setError(e) } finally { setIsLoading(false) } of makeApiRequest.
GraphCatchAndFinally ==
    /\ chatError' = "error"
    /\ isLoading' = FALSE
    /\ gcall' = [gcall EXCEPT !.pc = "threw"]
    /\ gopen' = FALSE
    /\ gwire' = <<>>
    /\ UNCHANGED <<answers, gsent, gemitted, gasked>>

\* graphRagApi rejects, or the response has no body ("No stream available").
GraphApiFails ==
    /\ gcall.pc = "calling"
    /\ GraphCatchAndFinally

\* The backend writes one more event to the response body.
GraphBackendEmit(i) ==
    /\ gopen
    /\ gemitted < MaxStreamEvents
    /\ gemitted' = gemitted + 1
    /\ gwire' = gwire \o EncodeStreamEvent(i)
    /\ gsent' = Append(gsent, i)
    /\ UNCHANGED <<answers, isLoading, chatError, gcall, gopen, gasked>>

\* The backend ends the response body.
GraphBackendClose ==
    /\ gopen
    /\ gopen' = FALSE
    /\ UNCHANGED <<answers, isLoading, chatError, gcall, gwire, gsent, gemitted, gasked>>

\* reader.read() gives the next chunk, the first n elements of what is on the
\* wire, and the loop over its lines runs to its end.
GraphReadChunk(n) ==
    /\ gcall.pc = "reading"
    /\ n \in 1..Len(gwire)
    /\ LET locals == StreamChunk(gcall.locals, SubSeq(gwire, 1, n)) IN
       /\ gcall' = [gcall EXCEPT !.locals = locals,
                                 !.split = @ \/ gwire[n] # LineBreak]
       /\ answers' = IF locals.result # gcall.locals.result
                     THEN ReplaceLast(answers,
                                      GraphAnswer(gcall.question, locals.result,
                                                  locals.newGraphNodes, locals.newGraphEdges))
                     ELSE IF locals.attached
                     THEN ReplaceLast(answers,
                                      GraphAnswer(gcall.question, answers[Len(answers)].content,
                                                  locals.newGraphNodes, locals.newGraphEdges))
                     ELSE answers
    /\ gwire' = SubSeq(gwire, n + 1, Len(gwire))
    /\ UNCHANGED <<isLoading, chatError, gopen, gsent, gemitted, gasked>>

\* reader.read() reports done: the final update puts the trimmed result and
\* the two arrays into the last answer; makeApiRequest returns and its finally
\* block resets isLoading.
GraphStreamEnd ==
    /\ gcall.pc = "reading"
    /\ gwire = <<>>
    /\ ~gopen
    /\ answers' = ReplaceLast(answers,
                              GraphAnswer(gcall.question, Trim(gcall.locals.result),
                                          gcall.locals.newGraphNodes,
                                          gcall.locals.newGraphEdges))
    /\ isLoading' = FALSE
    /\ gcall' = [gcall EXCEPT !.pc = "returned"]
    /\ UNCHANGED <<chatError, gwire, gopen, gsent, gemitted, gasked>>

\* reader.read() rejects (the connection breaks): the catch of
\* handleGraphStreamResponse rethrows to makeApiRequest.
GraphStreamFails ==
    /\ gcall.pc = "reading"
    /\ gopen
    /\ GraphCatchAndFinally

GraphStreamNext ==
    \/ \E q \in Questions : GraphSend(q)
    \/ GraphResponds
    \/ GraphApiFails
    \/ \E i \in StreamEventIds : GraphBackendEmit(i)
    \/ GraphBackendClose
    \/ \E n \in 1..Len(gwire) : GraphReadChunk(n)
    \/ GraphStreamEnd
    \/ GraphStreamFails

\* ------------------------------------------------------------------------
\* BackgroundExportService
\* ------------------------------------------------------------------------

\* new Map(): no job yet.
JobsInit ==
    /\ activeJobs = <<>>
    /\ extractions = <<>>
    /\ jobEvents = <<>>

\* The service as extraction j sees it.
ServiceOf(j) == Service(activeJobs, jobEvents, extractions[j])

\* The service after extraction j ran to its next await.
JobStep(j, m) ==
    /\ activeJobs' = m.jobs
    /\ jobEvents' = m.events
    /\ extractions' = [extractions EXCEPT ![j] = m.run]

\* startExport(policyId, fileName, idToken). The job id is built from
\* Date.now() and Math.random(): each call gets an id no earlier job has.
JobStartExport(policyId) ==
    /\ Len(activeJobs) < MaxJobs
    /\ LET m == startExport(activeJobs, jobEvents, Len(activeJobs) + 1, policyId) IN
       /\ activeJobs' = m.jobs
       /\ jobEvents' = m.events
       /\ extractions' = Append(extractions, m.run)

JobHeaderQuery(j, o) ==
    /\ extractions[j].pc = "header"
    /\ JobStep(j, HeaderReturns(ServiceOf(j), backgroundQueryRAG(o)))

JobSectionsQuery(j, o) ==
    /\ extractions[j].pc = "sections"
    /\ LET m == SectionsReturns(ServiceOf(j), backgroundQueryRAG(o)) IN
       /\ Len(m.run.allSections) <= MaxJobSections
       /\ JobStep(j, m)

JobFieldsQuery(j, o) ==
    /\ extractions[j].pc = "fields"
    /\ JobStep(j, FieldsReturns(ServiceOf(j), backgroundQueryRAG(o)))

JobValueQuery(j, o) ==
    /\ extractions[j].pc = "value"
    /\ JobStep(j, ValueReturns(ServiceOf(j), backgroundQueryRAG(o)))

\* The await of extractPolicyData in runExtractionInBackground resumes.
JobSettles(j) ==
    /\ extractions[j].pc \in {"returned", "threw"}
    /\ JobStep(j, Settle(ServiceOf(j)))

JobsNext ==
    \/ \E policyId \in JobPolicyIds : JobStartExport(policyId)
    \/ \E j \in DOMAIN extractions : \E o \in JobHeaderOutcomes : JobHeaderQuery(j, o)
    \/ \E j \in DOMAIN extractions : \E o \in JobSectionsOutcomes : JobSectionsQuery(j, o)
    \/ \E j \in DOMAIN extractions : \E o \in JobFieldsOutcomes : JobFieldsQuery(j, o)
    \/ \E j \in DOMAIN extractions : \E o \in JobValueOutcomes : JobValueQuery(j, o)
    \/ \E j \in DOMAIN extractions : JobSettles(j)

\* ------------------------------------------------------------------------
\* Specifications
\* ------------------------------------------------------------------------

Init ==
    /\ JobsInit
    /\ RowsInit
    /\ TalkInit
    /\ GraphStreamInit
    /\ QueryInit
    /\ GraphInit
    /\ ChatInit
    /\ ExcelInit
    /\ PlainInit
    /\ ReviewInit
    /\ RaceInit

Next ==
    \/ QueryNext /\ UNCHANGED <<graphVars, chatVars, excelVars, plainVars, reviewVars, raceVars, talkVars, graphStreamVars, rowsVars, jobsVars>>
    \/ GraphNext /\ UNCHANGED <<queryVars, chatVars, excelVars, plainVars, reviewVars, raceVars, talkVars, graphStreamVars, rowsVars, jobsVars>>
    \/ ChatNext /\ UNCHANGED <<queryVars, graphVars, excelVars, plainVars, reviewVars, raceVars, talkVars, graphStreamVars, rowsVars, jobsVars>>
    \/ ExcelNext /\ UNCHANGED <<queryVars, graphVars, chatVars, plainVars, reviewVars, raceVars, talkVars, graphStreamVars, rowsVars, jobsVars>>
    \/ PlainNext /\ UNCHANGED <<queryVars, graphVars, chatVars, excelVars, reviewVars, raceVars, talkVars, graphStreamVars, rowsVars, jobsVars>>
    \/ ReviewNext /\ UNCHANGED <<queryVars, graphVars, chatVars, excelVars, plainVars, raceVars, talkVars, graphStreamVars, rowsVars, jobsVars>>
    \/ RaceNext /\ UNCHANGED <<queryVars, graphVars, chatVars, excelVars, plainVars, reviewVars, talkVars, graphStreamVars, rowsVars, jobsVars>>
    \/ TalkNext /\ UNCHANGED <<queryVars, graphVars, chatReaderVars, excelVars, plainVars, reviewVars, raceVars, graphStreamVars, rowsVars, jobsVars>>
    \/ RowsNext /\ UNCHANGED <<queryVars, graphVars, chatVars, excelVars, plainVars, reviewVars, raceVars, talkVars, graphStreamVars, jobsVars>>
    \/ GraphStreamNext /\ UNCHANGED <<queryVars, graphVars, chatReaderVars, streamedAnswers, isStreaming, excelVars, plainVars, reviewVars, raceVars, talkVars, rowsVars, jobsVars>>
    \/ JobsNext /\ UNCHANGED <<queryVars, graphVars, chatVars, excelVars, plainVars, reviewVars, raceVars, talkVars, graphStreamVars, rowsVars>>

Spec == Init /\ [][Next]_vars

\* The background export service alone.
SpecJobs ==
    Init /\ [][JobsNext /\ UNCHANGED <<queryVars, graphVars, chatVars, excelVars, plainVars, reviewVars, raceVars, talkVars, graphStreamVars, rowsVars>>]_vars

\* The extractor on a policy with repeated section and field names.
SpecRows ==
    Init /\ [][RowsNext /\ UNCHANGED <<queryVars, graphVars, chatVars, excelVars, plainVars, reviewVars, raceVars, talkVars, graphStreamVars, jobsVars>>]_vars

\* The Chat page in graph retrieval mode.
SpecGraphStream ==
    Init /\ [][GraphStreamNext /\ UNCHANGED <<queryVars, graphVars, chatReaderVars, streamedAnswers, isStreaming, excelVars, plainVars, reviewVars, raceVars, talkVars, rowsVars, jobsVars>>]_vars

\* The Chat page with overlapping questions and the clear button.
SpecTalk ==
    Init /\ [][TalkNext /\ UNCHANGED <<queryVars, graphVars, chatReaderVars, excelVars, plainVars, reviewVars, raceVars, graphStreamVars, rowsVars, jobsVars>>]_vars

\* The query functions alone.
SpecQuery ==
    Init /\ [][QueryNext /\ UNCHANGED <<graphVars, chatVars, excelVars, plainVars, reviewVars, raceVars, talkVars, graphStreamVars, rowsVars, jobsVars>>]_vars

\* The graph parser alone.
SpecGraph ==
    Init /\ [][GraphNext /\ UNCHANGED <<queryVars, chatVars, excelVars, plainVars, reviewVars, raceVars, talkVars, graphStreamVars, rowsVars, jobsVars>>]_vars

\* The Chat page alone.
SpecChat ==
    Init /\ [][ChatNext /\ UNCHANGED <<queryVars, graphVars, excelVars, plainVars, reviewVars, raceVars, talkVars, graphStreamVars, rowsVars, jobsVars>>]_vars

\* The export control alone.
SpecExcel ==
    Init /\ [][ExcelNext /\ UNCHANGED <<queryVars, graphVars, chatVars, plainVars, reviewVars, raceVars, talkVars, graphStreamVars, rowsVars, jobsVars>>]_vars

\* The earlier revisions of the extractor alone.
SpecPlain ==
    Init /\ [][PlainNext /\ UNCHANGED <<queryVars, graphVars, chatVars, excelVars, reviewVars, raceVars, talkVars, graphStreamVars, rowsVars, jobsVars>>]_vars

\* The show-all revision of the extractor alone.
SpecReview ==
    Init /\ [][ReviewNext /\ UNCHANGED <<queryVars, graphVars, chatVars, excelVars, plainVars, raceVars, talkVars, graphStreamVars, rowsVars, jobsVars>>]_vars

\* Two controls over the shared cache alone.
SpecRace ==
    Init /\ [][RaceNext /\ UNCHANGED <<queryVars, graphVars, chatVars, excelVars, plainVars, reviewVars, talkVars, graphStreamVars, rowsVars, jobsVars>>]_vars

\* ------------------------------------------------------------------------
\* Properties of the query primitive and the retrying variants
\* ------------------------------------------------------------------------

IsPrimitiveCall == qcall.fn \in {"queryRAG", "queryChatAPI"}

IsRetryCall == qcall.fn \in {"queryRAGWithRetry", "queryWithRetry"}

\* The trimmed response text of a network outcome; empty when the call failed
\* or the body has no message.content.
TrimmedText(o) == IF o.kind = "ok" /\ o.hasContent THEN Trim(o.text) ELSE <<>>

\* C1 as stated: the primitive never raises, returns the trimmed response text
\* or "NF", and returns "NF" exactly when the trimmed text is empty or the
\* call failed.
C1_AsStated ==
    IsPrimitiveCall =>
        LET o == qcall.outs[1] IN
        /\ ~qcall.threw
        /\ qcall.value \in {TrimmedText(o), NF}
        /\ qcall.value = NF <=> (CallFailed(o) \/ TrimmedText(o) = <<>>)

\* C1 (amended): the primitive never raises; when the call failed or the
\* trimmed text is empty it returns "NF", and otherwise it returns the trimmed
\* text, so it returns "NF" exactly when the call failed, the trimmed text is
\* empty, or the trimmed text is itself "NF".
C1_QueryNeverRaises ==
    IsPrimitiveCall =>
        LET o == qcall.outs[1] IN
        /\ ~qcall.threw
        /\ (CallFailed(o) \/ TrimmedText(o) = <<>>) => qcall.value = NF
        /\ ~(CallFailed(o) \/ TrimmedText(o) = <<>>) => qcall.value = TrimmedText(o)
        /\ qcall.value = NF <=>
               (CallFailed(o) \/ TrimmedText(o) = <<>> \/ TrimmedText(o) = NF)

\* C1 witness: a non-2xx status was converted to "NF" without raising.
C1_Witness ==
    /\ qcall.fn = "queryRAG"
    /\ qcall.outs[1] = StatusError
    /\ ~qcall.threw
    /\ qcall.value = NF

\* The result of the k-th underlying query of the retrying call in qcall.
AttemptResult(k) == queryRAG(NthOutcome(qcall.outs, k)).value

\* C2: a retrying call issues at most maxRetries + 1 = 3 queries, stops at the
\* first attempt whose result is not "NF" and returns that result, and returns
\* "NF" if and only if all 3 attempts returned "NF".
C2_RetryBounded ==
    IsRetryCall =>
        LET found == {k \in 1..(maxRetries + 1) : AttemptResult(k) # NF} IN
        /\ ~qcall.threw
        /\ qcall.calls <= 3
        /\ IF found # {}
           THEN LET first == CHOOSE k \in found : \A m \in found : k <= m IN
                /\ qcall.calls = first
                /\ qcall.value = AttemptResult(first)
                /\ qcall.value # NF
           ELSE /\ qcall.calls = maxRetries + 1
                /\ qcall.value = NF

\* C2 witness: the first two attempts returned "NF" and the third succeeded.
C2_Witness ==
    /\ qcall.fn = "queryRAGWithRetry"
    /\ qcall.calls = 3
    /\ qcall.value # NF

\* ------------------------------------------------------------------------
\* Properties of parseGraph
\* ------------------------------------------------------------------------

\* Index of the first "->" of s at or after position from; 0 if none.
RECURSIVE IndexOfArrow(_, _)
IndexOfArrow(s, from) ==
    IF from + 1 > Len(s) THEN 0
    ELSE IF s[from] = "-" /\ s[from + 1] = ">" THEN from
    ELSE IndexOfArrow(s, from + 1)

\* The parts of s between its arrows.
RECURSIVE ArrowParts(_)
ArrowParts(s) ==
    LET p == IndexOfArrow(s, 1) IN
    IF p = 0 THEN <<s>>
    ELSE <<SubSeq(s, 1, p - 1)>> \o ArrowParts(SubSeq(s, p + 2, Len(s)))

\* A line "A -> r -> B": three arrow-separated parts, source and target not
\* empty.
WellFormedLine(s) ==
    LET parts == ArrowParts(s) IN
    /\ Len(parts) = 3
    /\ Trim(parts[1]) # <<>>
    /\ Trim(parts[3]) # <<>>

WellFormedLines(rels) == {rels[k] : k \in {i \in 1..Len(rels) : WellFormedLine(rels[i])}}

ExpectedNodeIds(rels) ==
    UNION {{Trim(ArrowParts(s)[1]), Trim(ArrowParts(s)[3])} : s \in WellFormedLines(rels)}

ExpectedEdgeKeys(rels) ==
    {<<Trim(ArrowParts(s)[1]), Trim(ArrowParts(s)[3]), Trim(ArrowParts(s)[2])>> :
        s \in WellFormedLines(rels)}

EdgeKey(e) == <<e.from, e.to, e.label>>

\* C10 as stated: the output of parseGraph has exactly one node per distinct
\* source or target name of the well-formed lines and exactly one edge per
\* distinct edge key (source, target, relationship) of the well-formed lines;
\* every other line contributes no node and no edge.
C10_AsStated ==
    graph.parser # "none" =>
        /\ \A i, j \in 1..Len(graph.nodes) : i # j => graph.nodes[i].id # graph.nodes[j].id
        /\ {graph.nodes[k].id : k \in 1..Len(graph.nodes)} = ExpectedNodeIds(relations)
        /\ \A i, j \in 1..Len(graph.edges) :
               i # j => EdgeKey(graph.edges[i]) # EdgeKey(graph.edges[j])
        /\ {EdgeKey(graph.edges[k]) : k \in 1..Len(graph.edges)} = ExpectedEdgeKeys(relations)

NodeIds(g) == {g.nodes[k].id : k \in 1..Len(g.nodes)}
EdgeKeys(g) == {EdgeKey(g.edges[k]) : k \in 1..Len(g.edges)}
EdgeIds(g) == {g.edges[k].id : k \in 1..Len(g.edges)}

\* C11: for either revision of parseGraph, parsing a relation list followed
\* by itself gives the same set of node ids, the same set of edge keys and
\* edge ids, and as many nodes and edges, as parsing the list once.
C11_ParseGraphIdempotent ==
    (graph.parser # "none" /\ doubled.parser = graph.parser) =>
        /\ NodeIds(doubled) = NodeIds(graph)
        /\ EdgeKeys(doubled) = EdgeKeys(graph)
        /\ EdgeIds(doubled) = EdgeIds(graph)
        /\ Len(doubled.nodes) = Len(graph.nodes)
        /\ Len(doubled.edges) = Len(graph.edges)

\* A list of two lines that gives two edges, parsed once and doubled by the
\* same revision.
C11_Witness ==
    /\ graph.parser # "none"
    /\ doubled.parser = graph.parser
    /\ Len(relations) = 2
    /\ Len(graph.edges) = 2
    /\ Len(graph.nodes) >= 2

\* ------------------------------------------------------------------------
\* Claims about the streaming answer assembler
\* ------------------------------------------------------------------------

\* The content fragments of the events of a sequence that take the delta
\* branch, concatenated in event order.
RECURSIVE DeltaContents(_)
DeltaContents(ids) ==
    IF ids = <<>> THEN <<>>
    ELSE LET e == EventTable[Head(ids)] IN
         (IF ~(e.hasContext /\ e.context["data_points"] # Absent) /\ e.hasDelta
          THEN e.content ELSE <<>>) \o DeltaContents(Tail(ids))

\* C7: when handleAsyncRequest returns, the loop has handled exactly the
\* events the backend emitted, in order, and the content of the returned
\* response (the pair appended to answers) is the concatenation f1+...+fn of
\* the fragments of the delta events, whatever the chunks were.
C7_ContentIsConcatenation ==
    req.outcome = "returned" =>
        /\ log = sent
        /\ req.answer = DeltaContents(sent)
        /\ answers # <<>>
        /\ answers[Len(answers)].content = DeltaContents(sent)

\* A response returned after two different fragments, with a chunk that ended
\* inside a line.
C7_Witness ==
    /\ req.outcome = "returned"
    /\ splitSeen
    /\ DeltaContents(sent) = <<"a", "b">>
    /\ answers[Len(answers)].content = <<"a", "b">>

\* C8: an error event is the last event the loop handles: the request has
\* thrown at once (isStreaming reset by the finally block), answers is what
\* it was when the question was submitted, and the error is recorded.
C8_ErrorStopsRequest ==
    \A k \in 1..Len(log) :
        EventTable[log[k]].hasError =>
            /\ k = Len(log)
            /\ req.pc = "idle"
            /\ req.outcome = "threw"
            /\ answers = req.answers
            /\ chatError = "error"
            /\ ~isStreaming
            /\ ~isLoading

\* An error event handled after a fragment was applied, on a transcript that
\* already held an answer.
C8_Witness ==
    /\ log # <<>>
    /\ EventTable[log[Len(log)]].hasError
    /\ req.answer # <<>>
    /\ req.answers # <<>>
    /\ answers = req.answers

KnownRuns == {runs[k] : k \in 1..Len(runs)} \cup (IF lastRun.pc = "done" THEN {lastRun} ELSE {})

NonDecreasing(seq) == \A k \in 1..(Len(seq) - 1) : seq[k] <= seq[k + 1]

\* C3: a call that finds the record of its id in the cache issues no query,
\* reports progress 100 and nothing else, emits exactly one snapshot, the
\* cached record, and returns it: the record the earlier call returned.
C3_CacheShortCircuit ==
    \A run \in KnownRuns :
        run.cachedAtStart.present =>
            /\ run.pc = "done"
            /\ run.queries = 0
            /\ run.progressLog = <<100>>
            /\ run.snapshotCount = 1
            /\ run.lastSnapshot = run.cachedAtStart.data
            /\ run.result = run.cachedAtStart
            /\ (returned[run.policyId].present => run.result = returned[run.policyId])

\* A second call that was served from the cache a record with a header value
\* and a section field.
C3_Witness ==
    /\ lastRun.pc = "done"
    /\ lastRun.cachedAtStart.present
    /\ clicks = 2
    /\ lastRun.result = returned[lastRun.policyId]
    /\ lastRun.result.data.headerInfo["insuredName"] # <<>>
    /\ \E k \in 1..Len(lastRun.result.data.sections) :
           lastRun.result.data.sections[k].fields # <<>>

\* C4: in every invocation the values passed to setProgress never decrease,
\* every value but the last is below 100 and the last is 100 exactly when
\* the invocation is done; and the step that reports 100 is a cache hit or
\* leaves the returned record in the cache.
C4_ProgressMonotone ==
    /\ [](\A run \in KnownRuns :
            /\ NonDecreasing(run.progressLog)
            /\ \A k \in 1..(Len(run.progressLog) - 1) : run.progressLog[k] < 100
            /\ run.progressLog # <<>>
            /\ (run.progressLog[Len(run.progressLog)] = 100) <=> (run.pc = "done"))
    /\ [][ (lastRun' # lastRun /\ lastRun'.pc = "done")
             => \/ lastRun'.cachedAtStart.present
                \/ policyDataCache'[lastRun'.policyId] = lastRun'.result ]_vars

\* An extraction of two sections with two fields each that is done, with the
\* whole sequence of its progress values.
C4_Witness ==
    /\ lastRun.pc = "done"
    /\ ~lastRun.cachedAtStart.present
    /\ lastRun.progressLog = <<5, 8, 12, 15, 19, 22, 26, 30, 30, 35, 50, 66, 82, 98, 100>>

\* C6 as stated: at most one extraction of the control is in flight, and
\* exportInProgress is true exactly while one is.
C6_AsStated ==
    /\ Len(runs) <= 1
    /\ exportInProgress <=> (runs # <<>>)

\* C6 amended: at most one extraction of the control is in flight; while the
\* control is mounted exportInProgress is true exactly while one is, and
\* unmounting resets it; an invocation of handleExport that finds the flag
\* set changes neither the runs (no query is issued) nor progress, rows,
\* error, isExporting, the flag or the cache.
C6_InFlightGuard ==
    /\ [](/\ Len(runs) <= 1
          /\ mounted => (exportInProgress <=> (runs # <<>>))
          /\ ~mounted => ~exportInProgress)
    /\ [][ (clicks' = clicks + 1 /\ exportInProgress)
             => /\ ignored' = ignored + 1
                /\ UNCHANGED <<runs, progress, partialData, displayRows,
                               exportError, isExporting, exportInProgress,
                               policyDataCache>> ]_vars

\* An invocation was turned away by the guard while an extraction that has
\* already shown rows is in flight.
C6_Witness ==
    /\ ignored = 1
    /\ Len(runs) = 1
    /\ exportInProgress
    /\ runs[1].queries > 0
    /\ displayRows # <<>>

\* ------------------------------------------------------------------------
\* Claim about the termination of every revision of the extractor
\* ------------------------------------------------------------------------

\* C5 as stated: whatever the queries return, an invocation of
\* extractPolicyData (the service's or the first control's) never ends by
\* throwing.
C5_AsStated == extraction.pc # "threw"

\* ------------------------------------------------------------------------
\* Claims about the phases of the progressive extractor
\* ------------------------------------------------------------------------

\* The order of the header fields the specification gives.
HeaderOrder ==
    <<"insuredName", "clientCode", "policyNumber", "policyDates", "policyType",
      "policyPremium", "expiringPolicyPremium">>

HeaderPopulated(run) ==
    \A n \in 1..Len(HeaderOrder) :
        run.policyData.headerInfo[HeaderOrder[n]] = Trim(HeaderReply(n - 1))

\* C12: a header field only ever holds the trimmed answer to its own prompt;
\* the step that receives a non-'NF' answer to the i-th prompt stores its
\* trimmed text under the i-th field of the fixed order; and once the seven
\* queries have each been answered at the first attempt all seven fields are
\* populated.
C12_HeaderPopulated ==
    /\ [](\A run \in KnownRuns :
            /\ \A n \in 1..Len(HeaderOrder) :
                   run.policyData.headerInfo[HeaderOrder[n]]
                       \in {<<>>, Trim(HeaderReply(n - 1))}
            /\ (run.pc = "sections" /\ run.queries = Len(HeaderOrder))
                   => HeaderPopulated(run))
    /\ [][ \A k \in 1..Len(runs) : \A res \in HeaderResults :
              (HeaderQuery(k, res) /\ res.value # <<>> /\ res.value # NF)
                  => runs'[k].policyData.headerInfo[HeaderOrder[runs[k].i + 1]]
                         = Trim(res.value) ]_vars

\* The seven header queries were answered, each with its own text, and the
\* record holds the seven trimmed texts.
C12_Witness ==
    /\ Len(runs) = 1
    /\ runs[1].pc = "sections"
    /\ runs[1].queries = Len(HeaderOrder)
    /\ HeaderPopulated(runs[1])
    /\ runs[1].policyData.headerInfo["policyType"] = <<"h", "4">>
    /\ runs[1].policyData.headerInfo["insuredName"] = <<"h", "0">>

\* Runs that did not find their record in the cache.
ExtractingRuns == {run \in KnownRuns : ~run.cachedAtStart.present}

\* The progress values a run reported up to the end of its header phase.
HeaderProgressLog(run) ==
    SubSeq(run.progressLog, 1, Min(Len(run.progressLog), Len(HeaderFields) + 2))

IsPrefix(s, t) == Len(s) <= Len(t) /\ s = SubSeq(t, 1, Len(s))

\* C13 as stated: the progress reported during the header phase passes
\* through 5, 10, ..., 30 only.
C13_AsStated ==
    \A run \in ExtractingRuns :
        \A n \in 1..Len(HeaderProgressLog(run)) :
            HeaderProgressLog(run)[n] \in {5, 10, 15, 20, 25, 30}

\* C13 amended: the header phase reports 5 at its start, 5 + floor(25 i / 7)
\* after its i-th query, that is 8, 12, 15, 19, 22, 26, 30 (steps of 3 or 4),
\* and 30 once more at its end; a run in the phase has reported one value
\* per query answered, a run past it all nine.
C13_HeaderProgress ==
    \A run \in ExtractingRuns :
        /\ IsPrefix(HeaderProgressLog(run), <<5, 8, 12, 15, 19, 22, 26, 30, 30>>)
        /\ run.pc = "header" => Len(run.progressLog) = run.i + 1
        /\ run.pc # "header" => Len(run.progressLog) >= Len(HeaderFields) + 2
        /\ \A n \in 1..(Len(HeaderProgressLog(run)) - 2) :
               HeaderProgressLog(run)[n + 1] - HeaderProgressLog(run)[n] \in {3, 4}

\* A run that has just left the header phase, having reported all nine values.
C13_Witness ==
    /\ Len(runs) = 1
    /\ runs[1].pc = "sections"
    /\ runs[1].progressLog = <<5, 8, 12, 15, 19, 22, 26, 30, 30>>

\* ------------------------------------------------------------------------
\* Claims about the section discovery of the group-prompt revisions
\* ------------------------------------------------------------------------

\* The trimmed comma-separated pieces of the responses that are not 'NF', in
\* the order of the responses; empty pieces are kept or dropped.
RECURSIVE NamesOf(_, _)
NamesOf(responses, keepEmpty) ==
    IF responses = <<>> THEN <<>>
    ELSE LET r == Head(responses)
             pieces == IF r = <<>> \/ r = NF THEN <<>> ELSE MapTrim(Split(r, ","))
         IN (IF keepEmpty THEN pieces
             ELSE SelectSeq(pieces, LAMBDA piece : piece # <<>>))
                \o NamesOf(Tail(responses), keepEmpty)

GroupPhaseOver == extraction.pc \in {"fields", "value", "done", "threw"}

\* C14 as stated: the section list is the concatenation of every trimmed
\* comma-separated piece of the responses that are not 'NF'.
C14_AsStated ==
    GroupPhaseOver => extraction.allSections = NamesOf(extraction.groupResponses, TRUE)

\* C14 amended: one query per group prompt; the section list is the
\* concatenation in group order, duplicates kept, of the trimmed pieces of the
\* responses that are not 'NF', where PolicyExtractionService drops the empty
\* pieces and the other revisions keep them; and Property for the first group
\* with 'NF' for the others gives the list of Property alone.
C14_SectionList ==
    /\ extraction.pc = "groups" => Len(extraction.groupResponses) = extraction.i
    /\ extraction.pc = "header" => extraction.groupResponses = <<>>
    /\ GroupPhaseOver => Len(extraction.groupResponses) = SectionGroupCount
    /\ extraction.pc \notin {"idle", "header"} =>
          /\ extraction.allSections =
                 NamesOf(extraction.groupResponses, extraction.rev # "service")
          /\ extraction.groupResponses = <<Property, NF, NF, NF>>
                 => extraction.allSections = <<Property>>

\* The service found Property and Auto for the first group (with an empty
\* piece between them) and Property again for the second.
C14_Witness ==
    /\ extraction.rev = "service"
    /\ extraction.pc = "fields"
    /\ extraction.groupResponses[2] = Property
    /\ extraction.groupResponses[3] = NF
    /\ extraction.allSections = <<Property, Auto, Property>>

\* ------------------------------------------------------------------------
\* Claim about the parsing of a field-value response
\* ------------------------------------------------------------------------

BeforeFirstPipe(s) ==
    LET p == IndexOfFrom(s, "|", 1) IN
    IF p = 0 THEN s ELSE SubSeq(s, 1, p - 1)

AfterFirstPipe(s) ==
    LET p == IndexOfFrom(s, "|", 1) IN
    IF p = 0 THEN <<>> ELSE SubSeq(s, p + 1, Len(s))

\* The run that was runs[k] before a step of it.
RunAfter(k) == IF Len(runs') < Len(runs) THEN lastRun' ELSE runs'[k]

\* The fields stored under a section name in a record.
StoredFields(data, name) ==
    (CHOOSE e \in {data.sections[n] : n \in 1..Len(data.sections)} : e.name = name).fields

\* C15 as stated: the step that stores the FieldValue of a field-value
\* response stores as value the trimmed text before the first pipe and as
\* page the trimmed text after the first pipe.
C15_AsStated ==
    [][ \A k \in 1..Len(runs) : \A res \in ValueResults :
          (ValueQuery(k, res)
             /\ RunAfter(k).policyData # runs[k].policyData)
          => LET stored == StoredFields(RunAfter(k).policyData,
                                        runs[k].sections[runs[k].i + 1])
                 fieldValue == stored[Len(stored)]
             IN /\ fieldValue.fieldName = runs[k].fields[runs[k].j + 1]
                /\ fieldValue.value = Trim(BeforeFirstPipe(res.value))
                /\ fieldValue.page = Trim(AfterFirstPipe(res.value)) ]_vars

\* ------------------------------------------------------------------------
\* Claims about the end of an extraction and the default projection
\* ------------------------------------------------------------------------

ReviewReturned == review.pc \in {"done", "projected"}

\* C16 as stated: an extraction that is done has stored its record in the
\* cache under its id, then reported 100, then emitted one final snapshot of
\* the full record in which no display row is new.
C16_AsStated ==
    (ReviewReturned /\ ~review.cachedAtStart) =>
        /\ review.doneEffects = <<"cache", "progress", "snapshot">>
        /\ reviewCache[ControlPolicyId] = CachedRecord(review.policyData)
        /\ review.progressLog[Len(review.progressLog)] = 100
        /\ review.lastSnapshot = review.policyData
        /\ \A k \in 1..Len(review.lastRows) : ~review.lastRows[k].isNew

\* The values the default projection keeps out.
HiddenValues == {<<>>, NF, IDontKnowDot, IDontKnow}

\* C17: with showAllResponses not set no row of any snapshot has a hidden
\* value; the rows the current control's convertToDisplayRows and
\* transformToExcelFormat make of a returned record have none; and with
\* includeEmpty not set the rows of the earlier transformToExcelFormat have
\* none either.
C17_DefaultProjection ==
    /\ ~review.showAllResponses =>
           \A k \in 1..Len(review.lastRows) : review.lastRows[k].value \notin HiddenValues
    /\ review.pc = "projected" =>
           /\ \A k \in 1..Len(review.displayed) :
                  review.displayed[k].value \notin HiddenValues
           /\ \A k \in 1..Len(review.sheet) :
                  review.sheet[k].Value \notin HiddenValues
           /\ ~review.showAllResponses =>
                  \A k \in 1..Len(review.sheetInclude) :
                      review.sheetInclude[k].Value \notin HiddenValues

\* A record that holds "I don't know.", "I don't know" and 'NF' in its header
\* and "I don't know." in a section field was projected with the toggle off,
\* and rows were made of its other values.
C17_Witness ==
    /\ review.pc = "projected"
    /\ ~review.showAllResponses
    /\ ~review.cachedAtStart
    /\ review.policyData.headerInfo["insuredName"] = IDontKnowDot
    /\ review.policyData.headerInfo["clientCode"] = IDontKnow
    /\ review.policyData.headerInfo["policyNumber"] = NF
    /\ \E n \in 1..Len(review.policyData.sections) :
           \E m \in 1..Len(review.policyData.sections[n].fields) :
               review.policyData.sections[n].fields[m].value = IDontKnowDot
    /\ Len(review.lastRows) >= 2
    /\ Len(review.displayed) >= 2
    /\ Len(review.sheet) >= 2
    /\ Len(review.sheetInclude) >= 2

\* ------------------------------------------------------------------------
\* Claim about the order of the queries of one extraction
\* ------------------------------------------------------------------------

\* The queries of the sections from the n-th: the field-list query of each,
\* followed by the value queries of its fields in list order.
RECURSIVE SectionQueries(_, _, _)
SectionQueries(sections, fieldLists, n) ==
    IF n > Len(sections) \/ n > Len(fieldLists) + 1 THEN <<>>
    ELSE <<QueryFor("fields", sections[n], <<>>)>>
         \o (IF n > Len(fieldLists) THEN <<>>
             ELSE [m \in 1..Len(fieldLists[n]) |->
                      QueryFor("value", sections[n], fieldLists[n][m])])
         \o SectionQueries(sections, fieldLists, n + 1)

\* The whole sequence of queries of an extraction that found sections and
\* fieldLists: the seven header queries, the sections query, the sections.
QueryOrder(sections, fieldLists) ==
    [n \in 1..Len(HeaderFields) |-> QueryFor("header", <<>>, HeaderFields[n].chars)]
        \o <<QueryFor("sections", <<>>, <<>>)>>
        \o SectionQueries(sections, fieldLists, 1)

\* C18: an extraction that has not returned has exactly one query
\* outstanding, one that has returned has none; the queries issued so far
\* are the first ones of the fixed order (the header queries in list order,
\* the sections query, then for each section in discovery order its
\* field-list query and its value queries in list order), every one of them
\* but the last has resolved, and an extraction that has returned has issued
\* them all.
C18_Sequential ==
    \A run \in ExtractingRuns :
        /\ run.outstanding = (IF run.pc = "done" THEN 0 ELSE 1)
        /\ IsPrefix(run.issued, QueryOrder(run.sections, run.fieldLists))
        /\ run.pc = "done" => run.issued = QueryOrder(run.sections, run.fieldLists)
        /\ run.pc = "header" => Len(run.issued) = run.i + 1
        /\ run.pc = "sections" => Len(run.issued) = Len(HeaderFields) + 1
        /\ run.pc = "value" =>
               run.issued[Len(run.issued)] =
                   QueryFor("value", run.sections[run.i + 1], run.fields[run.j + 1])

\* An extraction of two sections of two fields each has returned, having
\* issued its fourteen queries.
C18_Witness ==
    /\ lastRun.pc = "done"
    /\ ~lastRun.cachedAtStart.present
    /\ Len(lastRun.sections) = 2
    /\ Len(lastRun.fieldLists) = 2
    /\ Len(lastRun.fieldLists[1]) = 2
    /\ Len(lastRun.fieldLists[2]) = 2
    /\ Len(lastRun.issued) = 14
    /\ lastRun.issued[10] = QueryFor("value", <<"P">>, <<"f">>)
    /\ lastRun.issued[11] = QueryFor("value", <<"P">>, <<"g">>)
    /\ lastRun.issued[12] = QueryFor("fields", <<"Q">>, <<>>)

\* ------------------------------------------------------------------------
\* Claims about two controls over the shared cache
\* ------------------------------------------------------------------------

Started(c) == racing[c].pc # "none"

\* Both controls have called the extractor, for different policies.
DifferentIds == Started(1) /\ Started(2) /\ racing[1].policyId # racing[2].policyId

\* Both controls have called the extractor, for the same policy.
SameId == Started(1) /\ Started(2) /\ racing[1].policyId = racing[2].policyId

\* The invocation for policyId running alone, from an empty cache, on the
\* query responses given.
RECURSIVE RunAlone(_, _)
RunAlone(run, responses) ==
    IF responses = <<>> \/ run.pc = "done" THEN run
    ELSE RunAlone(Suspend(RaceStep(Resume(run), Head(responses))), Tail(responses))

Alone(policyId, responses) ==
    RunAlone(Suspend(StartExtraction(policyId, NoRecord)), responses)

\* C19: when the two controls extract different policies, each invocation is
\* at every moment where it would be running alone on the responses it has
\* had; the cache holds the record of a policy exactly when the invocation
\* for that policy has returned, and it is the record that invocation
\* returned; and a step of an invocation leaves the entries of the other
\* policies as they were.
C19_NoInterference ==
    /\ [](DifferentIds =>
            \A c \in Controls :
                /\ racing[c] = Alone(racing[c].policyId, answered[c])
                /\ racing[c].pc = "done" =>
                       /\ raceCache[racing[c].policyId] = racing[c].result
                       /\ racing[c].result =
                              CachedRecord(Alone(racing[c].policyId, answered[c]).policyData)
                /\ racing[c].pc # "done" => ~raceCache[racing[c].policyId].present)
    /\ [][ \A c \in Controls :
              (racing'[c] # racing[c])
                  => \A id \in RaceIds \ {racing'[c].policyId} :
                         raceCache'[id] = raceCache[id] ]_vars

\* The two invocations, for policies A and B, took steps while the other was
\* in flight, the one for B returned first, and each record is in the cache
\* under its own id with the values of its own policy.
C19_Witness ==
    /\ DifferentIds
    /\ overlapped
    /\ finished = <<2, 1>>
    /\ raceCache["pA"] = racing[1].result
    /\ raceCache["pB"] = racing[2].result
    /\ raceCache["pA"].data.headerInfo["clientCode"] = <<"h", "1", "A">>
    /\ raceCache["pB"].data.headerInfo["clientCode"] = <<"h", "1", "B">>
    /\ raceCache["pA"].data.sections # <<>>
    /\ raceCache["pB"].data.sections # <<>>

\* C20: a control that calls the extractor for a policy while the other
\* control's invocation for the same policy is in flight misses the cache;
\* two invocations for the same policy that both missed the cache each issue
\* their whole sequence of queries; and once both have returned the cache
\* holds for the policy the record of the one that returned last.
C20_LastWriteWins ==
    /\ [](SameId =>
            /\ \A c \in Controls :
                   (~racing[c].cachedAtStart.present /\ racing[c].pc = "done")
                       => racing[c].issued =
                              QueryOrder(racing[c].sections, racing[c].fieldLists)
            /\ Len(finished) = 2
                   => raceCache[racing[1].policyId] = racing[finished[2]].result)
    /\ [][ \A c \in Controls : \A d \in Controls \ {c} :
              (~Started(c) /\ racing'[c].pc # "none" /\ InFlight(racing[d])
                 /\ racing'[c].policyId = racing[d].policyId)
                  => /\ ~racing'[c].cachedAtStart.present
                     /\ racing'[c].pc = "header"
                     /\ ~racing[d].cachedAtStart.present ]_vars

\* Both controls extracted policy A at once and had different answers; the
\* second returned first, and the cache holds the record of the first, which
\* is not the record of the second.
C20_Witness ==
    /\ SameId
    /\ overlapped
    /\ finished = <<2, 1>>
    /\ ~racing[1].cachedAtStart.present
    /\ ~racing[2].cachedAtStart.present
    /\ Len(racing[1].issued) >= 9
    /\ Len(racing[2].issued) >= 9
    /\ racing[1].result # racing[2].result
    /\ raceCache["pA"] = racing[1].result

\* ------------------------------------------------------------------------
\* Claims about the transcript of the Chat page
\* ------------------------------------------------------------------------

\* The step is the return of an invocation of makeApiRequest.
Returns(c) == calls[c].pc = "reading" /\ calls'[c].pc = "returned"

\* The pair the returning invocation c built.
PairOf(c) ==
    AnswerPair(calls[c].question, calls[c].answer, calls[c].askResponse.context)

\* C21 as stated: between clears answers only grows, by exactly the pair of
\* the question whose response completed: a step that is not clearChat and
\* changes answers is the return of an invocation and appends its pair to
\* the answers of before, and the return of an invocation appends its pair.
C21_AsStated ==
    [][ /\ (answers' # answers /\ clears' = clears)
            => \E c \in CallIds : Returns(c) /\ answers' = Append(answers, PairOf(c))
        /\ \A c \in CallIds : Returns(c) => answers' = Append(answers, PairOf(c)) ]_vars

\* ------------------------------------------------------------------------
\* Claims about the in-flight flags of the Chat page
\* ------------------------------------------------------------------------

\* Some invocation of makeApiRequest was made and every one made has settled.
AllSettled ==
    /\ \E c \in CallIds : Settled(calls[c])
    /\ \A c \in CallIds : calls[c].pc = "none" \/ Settled(calls[c])

\* C25: once every invocation of makeApiRequest has settled (returned, or
\* failed by a rejected request, an error event, a broken or unparsable
\* stream) isLoading and isStreaming are false; and the step in which an
\* invocation fails sets the error.
C25_IdleAfterSettled ==
    /\ [](AllSettled => ~isLoading /\ ~isStreaming)
    /\ [][ \A c \in CallIds :
              (~Settled(calls[c]) /\ calls'[c].pc = "threw")
                  => chatError' = "error" /\ ~isLoading' ]_vars

\* Two overlapping questions have settled, the first by an error event in its
\* stream after the second was sent, the second by returning; the page is idle
\* and shows the error.
C25_Witness ==
    /\ calls[1].cause = "event"
    /\ calls[2].pc = "returned"
    /\ calls[2].answers = <<>>
    /\ calls[1].answer # <<>>
    /\ ~isLoading
    /\ ~isStreaming
    /\ chatError = "error"

\* An invocation settled by a rejected request and another by a broken
\* stream.
C25_WitnessTransport ==
    /\ calls[1].cause = "stream"
    /\ calls[2].cause = "api"
    /\ AllSettled
    /\ ~isLoading
    /\ ~isStreaming
    /\ chatError = "error"

\* ------------------------------------------------------------------------
\* Claims about the graph streaming variant of the Chat page
\* ------------------------------------------------------------------------

\* The payloads of the text lines the backend wrote, joined in stream order.
RECURSIVE TextOfEvents(_)
TextOfEvents(ids) ==
    IF ids = <<>> THEN <<>>
    ELSE LET e == StreamEventTable[Head(ids)] IN
         (IF e.kind = "text" THEN e.payload ELSE <<>>) \o TextOfEvents(Tail(ids))

LastAnswer == answers[Len(answers)]

\* C22 as stated: when handleGraphStreamResponse has returned, the content of
\* the answer is the trimmed concatenation, in stream order, of the payloads
\* of all text lines of the stream, however the stream was cut into chunks.
C22_AsStated ==
    gcall.pc = "returned" => LastAnswer.content = Trim(TextOfEvents(gsent))

\* Position of the first relation handled with the given ends, 0 if none.
RECURSIVE FirstWithEnds(_, _, _, _)
FirstWithEnds(handled, from, to, k) ==
    IF k > Len(handled) THEN 0
    ELSE IF handled[k].from = from /\ handled[k].to = to THEN k
    ELSE FirstWithEnds(handled, from, to, k + 1)

\* C23 as stated: the graphData of the answer has no two nodes with the same
\* id and no two edges with the same (from, to); every node and every edge
\* comes from a relation that was handled; and a handled relation has its
\* edge in graphData unless an earlier one had the same from and the same
\* to, in which case the edge of the first one, with its label, is there.
C23_AsStated ==
    (gcall.pc \in {"reading", "returned"} /\ gcall.locals.attached) =>
        LET nodes == LastAnswer.graphData.nodes
            edges == LastAnswer.graphData.edges
            handled == gcall.locals.relations
        IN
        /\ \A j, k \in 1..Len(nodes) : nodes[j].id = nodes[k].id => j = k
        /\ \A j, k \in 1..Len(edges) :
               (edges[j].from = edges[k].from /\ edges[j].to = edges[k].to) => j = k
        /\ \A k \in 1..Len(nodes) :
               \E r \in 1..Len(handled) :
                   nodes[k].id \in {handled[r].from, handled[r].to}
        /\ \A r \in 1..Len(handled) :
               handled[FirstWithEnds(handled, handled[r].from, handled[r].to, 1)]
                   \in {edges[k] : k \in 1..Len(edges)}
        /\ \A k \in 1..Len(edges) : edges[k] \in {handled[r] : r \in 1..Len(handled)}

\* C26 as stated: when the consumption of a graph-mode stream has failed
\* after some text was received, the error is set and answers is what it was
\* before the question was sent.
C26_AsStated ==
    (gcall.pc = "threw" /\ gcall.locals.result # <<>>)
        => chatError = "error" /\ answers = gcall.before

\* ------------------------------------------------------------------------
\* Claims about the snapshots of the field-value phase
\* ------------------------------------------------------------------------

\* Snapshots the end of an extraction adds in the step that reaches it.
FinalSnapshots(run) == IF run.pc = "done" THEN 1 ELSE 0

\* C24 as stated: the step in which a field-value query resolves emits
\* exactly one snapshot for that value whatever the value is (on top of the
\* final snapshot when the step also ends the extraction), so the snapshots of
\* the phase are as many as its field-value queries.
C24_AsStated ==
    [][ \A k \in 1..Len(runs) : \A res \in ValueResults :
          ValueQuery(k, res)
              => RunAfter(k).snapshotCount =
                     runs[k].snapshotCount + 1 + FinalSnapshots(RunAfter(k)) ]_vars

\* ------------------------------------------------------------------------
\* Claims about an extraction whose queries all fail
\* ------------------------------------------------------------------------

\* The invocation missed the cache, came to its end, and every query it issued
\* used up its attempts on transport failures (so each resolved to 'NF'): it
\* issued the header queries and the sections query and nothing else.
AllQueriesFailed(run) ==
    /\ run.pc = "done"
    /\ ~run.cachedAtStart.present
    /\ Len(run.issued) = Len(HeaderFields) + 1
    /\ run.queries = (maxRetries + 1) * Len(run.issued)

EmptyRecord == CachedRecord(EmptyPolicyData)

\* The step is a click on the export button that passes the in-flight guard.
ExportStarts == clicks' = clicks + 1 /\ ignored' = ignored

\* C30: an extraction whose every query failed returns the empty record and
\* the step that ends it stores that record in policyDataCache under the id;
\* and an extraction started while the cache holds the empty record issues no
\* query, returns that record at once and leaves the cache as it is.
C30_EmptyRecordCached ==
    /\ [](AllQueriesFailed(lastRun) => lastRun.result = EmptyRecord)
    /\ [][ (lastRun' # lastRun /\ AllQueriesFailed(lastRun'))
              => policyDataCache'[lastRun'.policyId] = EmptyRecord ]_vars
    /\ [][ (ExportStarts /\ policyDataCache[ControlPolicyId] = EmptyRecord)
              => /\ lastRun'.pc = "done"
                 /\ lastRun'.issued = <<>>
                 /\ lastRun'.queries = 0
                 /\ lastRun'.result = EmptyRecord
                 /\ runs' = runs
                 /\ policyDataCache' = policyDataCache ]_vars

\* The second click found the empty record that the first extraction, all of
\* whose queries failed, had stored, and returned it without a query.
C30_Witness ==
    /\ clicks = 2
    /\ ignored = 0
    /\ lastRun.pc = "done"
    /\ lastRun.cachedAtStart = EmptyRecord
    /\ lastRun.issued = <<>>
    /\ lastRun.result = EmptyRecord
    /\ returned[ControlPolicyId] = EmptyRecord
    /\ policyDataCache[ControlPolicyId] = EmptyRecord

\* ------------------------------------------------------------------------
\* Claims about the display rows of the snapshots
\* ------------------------------------------------------------------------

DistinctKeys(rows) == \A j, k \in 1..Len(rows) : rows[j].key = rows[k].key => j = k

\* Every row of earlier is in later at the same place with the same key,
\* section, field, value and page.
ExtendsRows(earlier, later) ==
    /\ Len(earlier) <= Len(later)
    /\ \A k \in 1..Len(earlier) :
          /\ later[k].key = earlier[k].key
          /\ later[k].section = earlier[k].section
          /\ later[k].field = earlier[k].field
          /\ later[k].value = earlier[k].value
          /\ later[k].page = earlier[k].page

\* C29: in every snapshot that extractPolicyDataProgressively passes to
\* onPartialResults the row keys are pairwise distinct, and every snapshot
\* after the first keeps the rows of the one before it, in their order and
\* with their section, field, value and page.
C29_RowsExtend ==
    \A n \in 1..Len(listing.shownRows) :
        /\ DistinctKeys(listing.shownRows[n])
        /\ n > 1 => ExtendsRows(listing.shownRows[n - 1], listing.shownRows[n])

\* The backend listed section P twice with field f twice, and all four value
\* queries answered: the record holds the two values of the second pass, the
\* rows hold one row for P_f, with the value of the first query.
C29_Witness ==
    /\ listing.pc = "done"
    /\ listing.sections = << <<"P">>, <<"P">> >>
    /\ listing.fieldLists = << <<<<"f">>, <<"f">>>>, <<<<"f">>, <<"f">>>> >>
    /\ Len(StoredFields(listing.policyData, <<"P">>)) = 2
    /\ StoredFields(listing.policyData, <<"P">>)[1].value = <<"v", "1", "0">>
    /\ \E k \in 1..Len(listing.lastRows) :
          /\ listing.lastRows[k].key = <<"P", "_", "f">>
          /\ listing.lastRows[k].value = <<"v", "0", "0">>
    /\ Len(listing.shownRows) >= 5

\* The backend listed P with field f_g and then P_f with field g: one row has
\* the key P_f_g, the row of the first.
C29_WitnessSameKey ==
    /\ listing.pc = "done"
    /\ listing.sections = << <<"P">>, <<"P", "_", "f">> >>
    /\ Len(StoredFields(listing.policyData, <<"P", "_", "f">>)) = 1
    /\ \E k \in 1..Len(listing.lastRows) :
          /\ listing.lastRows[k].key = <<"P", "_", "f", "_", "g">>
          /\ listing.lastRows[k].section = <<"P">>

\* ------------------------------------------------------------------------
\* Claims about the jobs of BackgroundExportService
\* ------------------------------------------------------------------------

\* The records activeJobs held for job j, in order: each is the job an event
\* carried, since every activeJobs.set is followed by the emit of the record.
RecordsOf(j) == [n \in 1..Len(jobEvents[j]) |-> jobEvents[j][n].job]

TypesOf(j) == [n \in 1..Len(jobEvents[j]) |-> jobEvents[j][n].type]

\* C27, as stated: the progress of a job's record never decreases from
\* startExport through every job_updated to the terminal record, and it is
\* 100 only when the status is 'completed'.
C27_AsStated ==
    \A j \in DOMAIN jobEvents :
        /\ \A a, b \in 1..Len(jobEvents[j]) :
               a < b => RecordsOf(j)[a].progress <= RecordsOf(j)[b].progress
        /\ \A a \in 1..Len(jobEvents[j]) :
               RecordsOf(j)[a].progress = Percent(100)
                   => RecordsOf(j)[a].status = "completed"

TerminalTypes == {"job_completed", "job_failed"}

TerminalStatus(type) == IF type = "job_completed" THEN "completed" ELSE "failed"

\* The events of job j so far: job_started comes first and only first, a
\* terminal event comes last and only last, every record before a terminal
\* one is 'running', a terminal record has the status of its event, and
\* activeJobs holds the record of the last event.
LifecycleSoFar(j) ==
    LET n == Len(jobEvents[j]) IN
    /\ n >= 1
    /\ \A a \in 1..n : (TypesOf(j)[a] = "job_started") <=> (a = 1)
    /\ \A a \in 1..n : TypesOf(j)[a] \in TerminalTypes => a = n
    /\ \A a \in 1..n :
           /\ RecordsOf(j)[a].id = j
           /\ RecordsOf(j)[a].status =
                  IF TypesOf(j)[a] \in TerminalTypes
                  THEN TerminalStatus(TypesOf(j)[a]) ELSE "running"
    /\ activeJobs[j] = RecordsOf(j)[n]
    /\ (extractions[j].pc = "done") <=> (TypesOf(j)[n] \in TerminalTypes)

\* A step leaves the record of a job that reached its terminal status as it
\* is, and changes the record of a job only when that job's own extraction
\* moved.
RecordsKept ==
    \A j \in DOMAIN activeJobs :
        /\ activeJobs[j].status # "running" =>
               /\ activeJobs'[j] = activeJobs[j]
               /\ jobEvents'[j] = jobEvents[j]
        /\ activeJobs'[j] # activeJobs[j] => extractions'[j] # extractions[j]
        /\ jobEvents'[j] # jobEvents[j] => extractions'[j] # extractions[j]

\* C28: every job is 'running' until it moves once to 'completed' or
\* 'failed'; job_started precedes every job_updated of the job; one terminal
\* event is emitted for it, no job_updated follows that event and the record
\* does not change afterwards; no job changes the record of another.
C28_JobLifecycle ==
    /\ [](\A j \in DOMAIN activeJobs : LifecycleSoFar(j))
    /\ [][RecordsKept]_vars

\* Two jobs ran side by side, one failed and one completed.
C28_Witness ==
    /\ Len(activeJobs) = 2
    /\ activeJobs[1].status = "failed"
    /\ activeJobs[2].status = "completed"
    /\ Len(activeJobs[2].result.sections) = 2
    /\ extractions[1].pc = "done"
    /\ extractions[2].pc = "done"

====
